---- MODULE Spec2Model ----
(***************************************************************************)
(* The streaming controller of recognize: main() and signal_handler() of   *)
(* src/Formula/recognize.rb (the C++ source the formula embeds), with the  *)
(* audio source, the inference engine and the sinks as nondeterministic    *)
(* collaborators.  One model sample stands for 1/SampleRate seconds.       *)
(***************************************************************************)
EXTENDS Integers, Sequences, FiniteSets, TLC

VARIABLES
    pc,                    \* position of main()
    params,                \* whisper_params fields the controller reads
    g_interrupt_received,  \* std::atomic<bool>, set by signal_handler
    g_is_recording,        \* std::atomic<bool>, set/cleared by main
    is_running,            \* last result of sdl_poll_events()
    pcmf32,                \* chunk handed to inference
    pcmf32_old,            \* carry buffer
    pcmf32_new,            \* last pull
    n_iter,                \* processed chunks
    audio,                 \* the audio source: [buf, next_id, paused, cleared]
    now,                   \* wall clock, ms since t_start
    t_last,                \* last VAD trigger timestamp
    results,               \* bilingual_results of the last inference
    acc,                   \* accumulators: [copy, export, meeting]
    cancel_seen,           \* history: the controller has observed cancellation
    pull_kind,             \* history: what pcmf32_new holds in this iteration
    dropped,               \* history: samples of pulls rejected by backpressure
    last_infer,            \* history: the last inference call
    old_before,            \* history: the carry buffer the last chunk was composed from
    fin_log,               \* history: finalizers run to completion, in order
    sig,                   \* history: interrupts handled
    prompt_tokens,         \* token history kept by main()
    configured,            \* history: <<step_ms, length_ms, keep_ms>> as configured
    ctx,                   \* primary model handle: segments of its last whisper_full
    ctx_translate,         \* second model handle (bilingual mode)
    calls,                 \* history: whisper_full calls of this process_audio_segment
    auto_copy_session,     \* AutoCopySession: [transcription_buffer, has_been_copied]
    export_session,        \* ExportSession: [segments, metadata]
    meeting_session,       \* MeetingSession: [transcription_buffer]
    out                    \* the outside: sinks invoked, files, reports printed

vars == <<pc, params, g_interrupt_received, g_is_recording, is_running,
          pcmf32, pcmf32_old, pcmf32_new, n_iter, audio, now, t_last,
          results, acc, cancel_seen, pull_kind, dropped, last_infer,
          old_before, fin_log, sig, prompt_tokens, configured, ctx,
          ctx_translate, calls, auto_copy_session, export_session,
          meeting_session, out>>

\* the state of process_audio_segment's collaborators
segment_vars == <<ctx, ctx_translate, calls>>

\* the sessions of the accumulators, and the outside they report to
session_vars == <<auto_copy_session, export_session, meeting_session, out>>

(***************************************************************************)
(* Bounds of the model.                                                    *)
(***************************************************************************)
\* samples per second of the modelled audio (every sample count is linear in it)
SampleRate == 1
\* chunks the session processes before the event source reports termination
MaxIter == 2
\* samples the audio source captures in a session
MaxSamples == 5
\* segments one inference call returns
MaxSegments == 1
\* interrupts delivered in a session
MaxSignals == 2
\* wall clock horizon, in seconds
MaxNowSec == 4

\* configured <<step_ms, length_ms, keep_ms>>
WindowSet == {<<0, 2000, 200>>, <<1000, 3000, 2000>>, <<1000, 3000, 200>>,
              <<2000, 1000, 2000>>}
\* configured <<auto_copy_enabled, export_enabled, meeting_mode, no_context,
\* print_colors>>
EnableSet == {<<TRUE, TRUE, TRUE, FALSE, FALSE>>, <<TRUE, FALSE, TRUE, TRUE, FALSE>>,
              <<FALSE, TRUE, FALSE, TRUE, TRUE>>}
\* keystrokes answering the prompt
Keys == {"y", "Y", "n"}

(***************************************************************************)
(* Program constants.                                                      *)
(***************************************************************************)
VadWindowMs == 2000
VadSleepMs == 100
InitBufferMs == 30000

Min(a, b) == IF a < b THEN a ELSE b
Max(a, b) == IF a > b THEN a ELSE b

\* the last n elements of s (all of s when n >= Len(s))
LastN(n, s) == IF n >= Len(s) THEN s ELSE SubSeq(s, Len(s) - n + 1, Len(s))
Zeros(n) == [i \in 1..n |-> 0]
Fresh(from, k) == [i \in 1..k |-> from + i - 1]
Elems(s) == {s[i] : i \in 1..Len(s)}

\* (1e-3*ms)*WHISPER_SAMPLE_RATE, truncated to int
SamplesOf(ms) == (ms * SampleRate) \div 1000

n_samples_step == SamplesOf(params.step_ms)
n_samples_len  == SamplesOf(params.length_ms)
n_samples_keep == SamplesOf(params.keep_ms)
n_samples_30s  == SamplesOf(InitBufferMs)
use_vad == n_samples_step <= 0
n_new_line == IF ~use_vad THEN Max(1, params.length_ms \div params.step_ms - 1) ELSE 1

\* variant: only keep_ms is adjusted
AdjustWindowKeepOnly(p) == [p EXCEPT !.keep_ms = Min(p.keep_ms, p.step_ms)]

\* keep_ms = min(keep_ms, step_ms); length_ms = max(length_ms, step_ms)
AdjustWindow(p) ==
    [p EXCEPT !.keep_ms = Min(p.keep_ms, p.step_ms),
              !.length_ms = Max(p.length_ms, p.step_ms)]

\* params.no_context |= use_vad
DeriveFlags(p) == [p EXCEPT !.no_context = @ \/ SamplesOf(p.step_ms) <= 0]

NoInfer == [n |-> 0, chunk |-> <<>>, new |-> <<>>, old |-> <<>>,
            kind |-> "none", cancelled |-> FALSE, prompt |-> <<>>,
            carried |-> <<>>, produced |-> <<>>, t_trig |-> 0, t_prev |-> 0]
NoSignal == [count |-> 0, declined |-> 0, key |-> "none", idle_at |-> {},
             in_stop |-> FALSE]

\* the parameters after argument parsing: window w, switches e
Configured(w, e) ==
    [step_ms |-> w[1], length_ms |-> w[2], keep_ms |-> w[3],
     auto_copy_enabled |-> e[1], export_enabled |-> e[2],
     meeting_mode |-> e[3], no_context |-> e[4], print_colors |-> e[5]]

\* AutoCopySession(), ExportSession(), MeetingSession() as constructed
NoAutoCopy == [transcription_buffer |-> <<>>, has_been_copied |-> FALSE]
NoExport == [segments |-> <<>>, metadata |-> [total_segments |-> 0,
                                               total_duration_ms |-> 0]]
NoMeeting == [transcription_buffer |-> <<>>]
\* nothing copied, exported, written or reported yet
Silent == [clipboard |-> <<>>, exports |-> <<>>, written |-> <<>>,
           files |-> {}, reports |-> <<>>]

\* globals and the locals of main() as constructed
InitLocals ==
    /\ g_interrupt_received = FALSE
    /\ g_is_recording = FALSE
    /\ is_running = TRUE
    /\ pcmf32 = <<>>
    /\ pcmf32_old = <<>>
    /\ pcmf32_new = <<>>
    /\ n_iter = 0
    /\ audio = [buf |-> <<>>, next_id |-> 1, paused |-> TRUE, cleared |-> FALSE]
    /\ now = 0
    /\ t_last = 0
    /\ results = <<>>
    /\ acc = [copy |-> <<>>, export |-> <<>>, meeting |-> <<>>]
    /\ cancel_seen = FALSE
    /\ pull_kind = "none"
    /\ dropped = {}
    /\ last_infer = NoInfer
    /\ old_before = <<>>
    /\ fin_log = <<>>
    /\ sig = NoSignal
    /\ prompt_tokens = <<>>
    /\ ctx = <<>>
    /\ ctx_translate = <<>>
    /\ calls = <<>>
    /\ auto_copy_session = NoAutoCopy
    /\ export_session = NoExport
    /\ meeting_session = NoMeeting
    /\ out = Silent

\* globals and the locals of main() before its first statement
InitState ==
    /\ pc = "start"
    /\ InitLocals

Init ==
    /\ \E w \in WindowSet, e \in EnableSet :
         /\ params = Configured(w, e)
         /\ configured = w
    /\ InitState

(***************************************************************************)
(* signal_handler(SIGINT).  It runs on the main thread, which is suspended *)
(* while the handler blocks in getchar(); SIGINT is blocked while it runs. *)
(***************************************************************************)
Terminal == {"done", "exit0", "exit1", "exit2", "exit6", "crashed"}
\* from audio.pause() to the last finalizer's return
Stopping == {"pause", "fin_copy", "in_copy", "fin_export", "in_export",
             "fin_meeting", "in_meeting"}

\* variant: the handler stops without asking
HandlerSetsNoConfirm(recording, c) == TRUE
\* variant: the handler accepts the lower-case answer only
HandlerSetsLowerOnly(recording, c) == IF recording THEN c = "y" ELSE TRUE

\* g_interrupt_received after the handler has run with keystroke c
HandlerSets(recording, c) == IF recording THEN c \in {"y", "Y"} ELSE TRUE

SignalHandler ==
    /\ pc \notin Terminal
    /\ sig.count < MaxSignals
    /\ \E c \in Keys :
         LET set == HandlerSets(g_is_recording, c) IN
         /\ g_interrupt_received' = (g_interrupt_received \/ set)
         /\ sig' = [count |-> sig.count + 1,
                    declined |-> sig.declined + (IF set THEN 0 ELSE 1),
                    key |-> IF g_is_recording THEN c ELSE "none",
                    idle_at |-> IF g_is_recording THEN sig.idle_at
                                ELSE sig.idle_at \cup {pc},
                    in_stop |-> sig.in_stop \/ pc \in Stopping]
    /\ UNCHANGED <<pc, params, g_is_recording, is_running, pcmf32, pcmf32_old,
                   pcmf32_new, n_iter, audio, now, t_last, results, acc,
                   cancel_seen, pull_kind, dropped, last_infer, old_before,
                   fin_log, prompt_tokens, configured, segment_vars,
                   session_vars>>

(***************************************************************************)
(* main(): set-up.                                                         *)
(***************************************************************************)
\* argument parsing, window adjustment, audio.init, audio.resume, recording flag
Setup ==
    /\ pc = "start"
    /\ \E outcome \in {"ok", "parse_fail", "audio_fail"} :
         /\ params' = IF outcome = "parse_fail" THEN params
                      ELSE DeriveFlags(AdjustWindow(params))
         /\ IF outcome = "ok"
            THEN /\ audio' = [audio EXCEPT !.paused = FALSE]
                 /\ g_is_recording' = TRUE
                 /\ pc' = "init_model"
            ELSE /\ UNCHANGED <<audio, g_is_recording>>
                 /\ pc' = "exit1"
    /\ UNCHANGED <<g_interrupt_received, is_running, pcmf32, pcmf32_old,
                   pcmf32_new, n_iter, now, t_last, results, acc, cancel_seen,
                   pull_kind, dropped, last_infer, old_before, fin_log, sig,
                   prompt_tokens, configured, segment_vars,
                   session_vars>>

\* language check, model load, output-mode validation, buffers, sessions, t_last
InitModel ==
    /\ pc = "init_model"
    /\ \E outcome \in {"ok", "bad_language", "ctx_fail", "bad_mode"} :
         IF outcome = "ok"
         THEN /\ pcmf32' = Zeros(n_samples_30s)
              /\ pcmf32_new' = Zeros(n_samples_30s)
              /\ pcmf32_old' = <<>>
              /\ t_last' = now
              /\ pc' = "loop_test"
         ELSE /\ UNCHANGED <<pcmf32, pcmf32_new, pcmf32_old, t_last>>
              /\ pc' = CASE outcome = "bad_language" -> "exit0"
                          [] outcome = "ctx_fail" -> "exit2"
                          [] OTHER -> "exit1"
    /\ UNCHANGED <<params, g_interrupt_received, g_is_recording, is_running,
                   n_iter, audio, now, results, acc, cancel_seen, pull_kind,
                   dropped, last_infer, old_before, fin_log, sig,
                   prompt_tokens, configured, segment_vars,
                   session_vars>>

(***************************************************************************)
(* The audio source (external): a capture buffer of the capacity given to  *)
(* audio_async audio(params.length_ms), filled in the background.          *)
(***************************************************************************)
\* the source after k more samples were captured
Captured(a, k) ==
    [a EXCEPT !.buf = LastN(n_samples_len, a.buf \o Fresh(a.next_id, k)),
              !.next_id = a.next_id + k,
              !.cleared = FALSE]

\* audio.get(ms, out): the possible <<source, out>> pairs. A pull returns the
\* most recent ms of the buffered audio, or all of it.
AudioGet(ms) ==
    UNION { LET a == Captured(audio, k) IN
            { <<a, LastN(Min(SamplesOf(ms), Len(a.buf)), a.buf)>>,
              <<a, a.buf>> } :
            k \in 0..Min(n_samples_len, MaxSamples + 1 - audio.next_id) }

\* audio.clear()
AudioClear(a) == [a EXCEPT !.buf = <<>>, !.cleared = TRUE]

(***************************************************************************)
(* main(): the processing loop.                                            *)
(***************************************************************************)
\* while (is_running && !g_interrupt_received.load())
LoopTest ==
    /\ pc = "loop_test"
    /\ IF is_running /\ ~g_interrupt_received
       THEN pc' = "poll_top" /\ UNCHANGED cancel_seen
       ELSE pc' = "pause" /\ cancel_seen' = TRUE
    /\ UNCHANGED <<params, g_interrupt_received, g_is_recording, is_running,
                   pcmf32, pcmf32_old, pcmf32_new, n_iter, audio, now, t_last,
                   results, acc, pull_kind, dropped, last_infer, old_before,
                   fin_log, sig, prompt_tokens, configured, segment_vars,
                   session_vars>>

\* results of sdl_poll_events(): the event source reports termination at the
\* latest after MaxIter chunks
PollResults == IF n_iter < MaxIter THEN BOOLEAN ELSE {FALSE}

\* is_running = sdl_poll_events(); if (!is_running || interrupted) break;
PollTop ==
    /\ pc = "poll_top"
    /\ \E r \in PollResults :
         /\ is_running' = r
         /\ IF ~r \/ g_interrupt_received
            THEN pc' = "pause" /\ cancel_seen' = TRUE
            ELSE pc' = (IF use_vad THEN "vad_tick" ELSE "inner_poll")
                 /\ UNCHANGED cancel_seen
    /\ pull_kind' = "stale"
    /\ UNCHANGED <<params, g_interrupt_received, g_is_recording, pcmf32,
                   pcmf32_old, pcmf32_new, n_iter, audio, now, t_last, results,
                   acc, dropped, last_infer, old_before, fin_log, sig,
                   prompt_tokens, configured, segment_vars,
                   session_vars>>

\* the poll at the head of the inner while (true)
InnerPoll ==
    /\ pc = "inner_poll"
    /\ \E r \in BOOLEAN :
         /\ is_running' = r
         /\ IF ~r \/ g_interrupt_received
            THEN pc' = "compose" /\ cancel_seen' = TRUE
            ELSE pc' = "inner_get" /\ UNCHANGED cancel_seen
    /\ UNCHANGED <<params, g_interrupt_received, g_is_recording, pcmf32,
                   pcmf32_old, pcmf32_new, n_iter, audio, now, t_last, results,
                   acc, pull_kind, dropped, last_infer, old_before, fin_log,
                   sig, prompt_tokens, configured, segment_vars,
                   session_vars>>

\* size > 2*n_samples_step
IsOversize(got) == Len(got) > 2 * n_samples_step
\* size >= n_samples_step
IsEnough(got) == Len(got) >= n_samples_step

\* audio.get; too much audio: warn, audio.clear(), continue
Backpressure ==
    /\ pc = "inner_get"
    /\ \E g \in AudioGet(params.step_ms) :
         /\ IsOversize(g[2])
         /\ pcmf32_new' = g[2]
         /\ audio' = AudioClear(g[1])
         /\ dropped' = dropped \cup Elems(g[2])
    /\ pull_kind' = "dropped"
    /\ pc' = "inner_poll"
    /\ UNCHANGED <<params, g_interrupt_received, g_is_recording, is_running,
                   pcmf32, pcmf32_old, n_iter, now, t_last, results, acc,
                   cancel_seen, last_infer, old_before, fin_log, sig,
                   prompt_tokens, configured, segment_vars,
                   session_vars>>

\* audio.get; a step's worth is there: audio.clear(), break
AcceptPull ==
    /\ pc = "inner_get"
    /\ \E g \in AudioGet(params.step_ms) :
         /\ ~IsOversize(g[2])
         /\ IsEnough(g[2])
         /\ pcmf32_new' = g[2]
         /\ audio' = AudioClear(g[1])
    /\ pull_kind' = "accepted"
    /\ pc' = "compose"
    /\ UNCHANGED <<params, g_interrupt_received, g_is_recording, is_running,
                   pcmf32, pcmf32_old, n_iter, now, t_last, results, acc,
                   cancel_seen, dropped, last_infer, old_before, fin_log, sig,
                   prompt_tokens, configured, segment_vars,
                   session_vars>>

\* audio.get; not enough yet: sleep 1 ms and poll again
ShortPull ==
    /\ pc = "inner_get"
    /\ \E g \in AudioGet(params.step_ms) :
         /\ ~IsOversize(g[2])
         /\ ~IsEnough(g[2])
         /\ pcmf32_new' = g[2]
         /\ audio' = g[1]
    /\ pull_kind' = "short"
    /\ pc' = "inner_poll"
    /\ UNCHANGED <<params, g_interrupt_received, g_is_recording, is_running,
                   pcmf32, pcmf32_old, n_iter, now, t_last, results, acc,
                   cancel_seen, dropped, last_infer, old_before, fin_log, sig,
                   prompt_tokens, configured, segment_vars,
                   session_vars>>

\* variant: the whole carry buffer is taken
n_samples_take_all(old, new) == Len(old)

\* min(old.size, max(0, n_samples_keep + n_samples_len - n_samples_new))
n_samples_take(old, new) ==
    Min(Len(old), Max(0, n_samples_keep + n_samples_len - Len(new)))

\* pcmf32 = last n_samples_take of pcmf32_old, then pcmf32_new
ComposeChunk(old, new) == LastN(n_samples_take(old, new), old) \o new

\* the chunk of a continuous-mode iteration; pcmf32_old = pcmf32
Compose ==
    /\ pc = "compose"
    /\ pcmf32' = ComposeChunk(pcmf32_old, pcmf32_new)
    /\ pcmf32_old' = pcmf32'
    /\ old_before' = pcmf32_old
    /\ pc' = "infer"
    /\ UNCHANGED <<params, g_interrupt_received, g_is_recording, is_running,
                   pcmf32_new, n_iter, audio, now, t_last, results, acc,
                   cancel_seen, pull_kind, dropped, last_infer, fin_log, sig,
                   prompt_tokens, configured, segment_vars,
                   session_vars>>

\* time a sleep_for(100 ms) may take: the clock is observed at whole seconds
SleepAdvance == {d \in {1000, 2000} : d >= VadSleepMs /\ now + d <= MaxNowSec * 1000}

\* variant: the gate is tried on every tick
IsThrottledNever(t_diff) == FALSE

\* t_diff < 2000
IsThrottled(t_diff) == t_diff < VadWindowMs

\* VAD mode: t_diff < 2000: sleep and retry, nothing pulled
VadThrottle ==
    /\ pc = "vad_tick"
    /\ IsThrottled(now - t_last)
    /\ \E d \in SleepAdvance : now' = now + d
    /\ pc' = "loop_test"
    /\ UNCHANGED <<params, g_interrupt_received, g_is_recording, is_running,
                   pcmf32, pcmf32_old, pcmf32_new, n_iter, audio, t_last,
                   results, acc, cancel_seen, pull_kind, dropped, last_infer,
                   old_before, fin_log, sig, prompt_tokens, configured,
                   segment_vars, session_vars>>

\* VAD mode: probe of 2000 ms classified as speech: pull length_ms, t_last = t_now
VadDetect ==
    /\ pc = "vad_tick"
    /\ ~IsThrottled(now - t_last)
    /\ \E g \in AudioGet(VadWindowMs) :
         /\ pcmf32_new' = g[2]
         /\ \E h \in { LastN(Min(n_samples_len, Len(g[1].buf)), g[1].buf), g[1].buf } :
              pcmf32' = h
         /\ audio' = g[1]
    /\ pull_kind' = "vad_speech"
    /\ t_last' = now
    /\ pc' = "infer"
    /\ UNCHANGED <<params, g_interrupt_received, g_is_recording, is_running,
                   pcmf32_old, n_iter, now, results, acc, cancel_seen, dropped,
                   last_infer, old_before, fin_log, sig, prompt_tokens,
                   configured, segment_vars,
                   session_vars>>

\* variant: a silent probe is transcribed all the same
VadSilenceInfers ==
    /\ pc = "vad_tick"
    /\ ~IsThrottled(now - t_last)
    /\ \E g \in AudioGet(VadWindowMs) :
         /\ pcmf32_new' = g[2]
         /\ audio' = g[1]
    /\ \E d \in SleepAdvance : now' = now + d
    /\ pull_kind' = "vad_silence"
    /\ pc' = "infer"
    /\ UNCHANGED <<params, g_interrupt_received, g_is_recording, is_running,
                   pcmf32, pcmf32_old, n_iter, t_last, results, acc,
                   cancel_seen, dropped, last_infer, old_before, fin_log, sig,
                   prompt_tokens, configured, segment_vars,
                   session_vars>>

\* VAD mode: probe classified as silence: sleep and retry
VadSilence ==
    /\ pc = "vad_tick"
    /\ ~IsThrottled(now - t_last)
    /\ \E g \in AudioGet(VadWindowMs) :
         /\ pcmf32_new' = g[2]
         /\ audio' = g[1]
    /\ \E d \in SleepAdvance : now' = now + d
    /\ pull_kind' = "vad_silence"
    /\ pc' = "loop_test"
    /\ UNCHANGED <<params, g_interrupt_received, g_is_recording, is_running,
                   pcmf32, pcmf32_old, n_iter, t_last, results, acc,
                   cancel_seen, dropped, last_infer, old_before, fin_log, sig,
                   prompt_tokens, configured, segment_vars,
                   session_vars>>

\* the segments an inference call returns for chunk number n
Segments(n, count) == [i \in 1..count |-> [chunk |-> n, idx |-> i]]

\* the token ids of the segments, in order (one token per segment)
Tokens(segs) == [i \in 1..Len(segs) |-> <<segs[i].chunk, segs[i].idx>>]

\* the wparams main() fills in: prompt_tokens unless no_context
MainPrompt == IF params.no_context THEN <<>> ELSE prompt_tokens

\* the wparams process_audio_segment builds for whisper_full: the defaults,
\* with no prompt tokens; main()'s wparams is not handed over
SegmentPrompt == <<>>

\* process_audio_segment(ctx, ctx_translate, params, pcmf32, bilingual_results)
Infer ==
    /\ pc = "infer"
    /\ last_infer' = [n |-> last_infer.n + 1, chunk |-> pcmf32,
                      new |-> pcmf32_new, old |-> old_before,
                      kind |-> pull_kind, cancelled |-> cancel_seen,
                      prompt |-> SegmentPrompt,
                      carried |-> MainPrompt,
                      produced |-> Tokens(results),
                      t_trig |-> t_last, t_prev |-> last_infer.t_trig]
    /\ \E ok \in BOOLEAN, count \in 0..MaxSegments :
         IF ok
         THEN results' = Segments(n_iter + 1, count) /\ pc' = "dispatch"
         ELSE results' = <<>> /\ pc' = "exit6"
    /\ UNCHANGED <<params, g_interrupt_received, g_is_recording, is_running,
                   pcmf32, pcmf32_old, pcmf32_new, n_iter, audio, now, t_last,
                   acc, cancel_seen, pull_kind, dropped, old_before, fin_log,
                   sig, prompt_tokens, configured, segment_vars,
                   session_vars>>

\* print_bilingual_results: every segment goes to each enabled accumulator
\* (a session within the duration and size limits of should_auto_copy)
Dispatched(a, segs) ==
    [copy    |-> IF params.auto_copy_enabled THEN a.copy \o segs ELSE a.copy,
     export  |-> IF params.export_enabled THEN a.export \o segs ELSE a.export,
     meeting |-> IF params.meeting_mode THEN a.meeting \o segs ELSE a.meeting]

\* if (params.print_colors) print the tokens of ctx; else print_bilingual_results
Dispatch ==
    /\ pc = "dispatch"
    /\ acc' = IF params.print_colors THEN acc ELSE Dispatched(acc, results)
    /\ pc' = "advance"
    /\ UNCHANGED <<params, g_interrupt_received, g_is_recording, is_running,
                   pcmf32, pcmf32_old, pcmf32_new, n_iter, audio, now, t_last,
                   results, cancel_seen, pull_kind, dropped, last_infer,
                   old_before, fin_log, sig, prompt_tokens, configured,
                   segment_vars, session_vars>>

\* !use_vad && (n_iter % n_new_line) == 0, with n_iter already incremented
IsNewLine(n) == ~use_vad /\ n % n_new_line = 0

\* variant: the carry keeps the whole chunk
KeepTailWhole(chunk) == chunk

\* std::vector<float>(pcmf32.end() - n_samples_keep, pcmf32.end())
KeepTail(chunk) == LastN(n_samples_keep, chunk)

\* if (!params.no_context) prompt_tokens = the tokens of ctx's segments
RefreshPrompt(tokens, segs) == IF params.no_context THEN tokens ELSE Tokens(segs)

\* ++n_iter; on a new line the carry becomes the tail of the chunk and the
\* token history is refreshed
Advance ==
    /\ pc = "advance"
    /\ n_iter' = n_iter + 1
    /\ IF IsNewLine(n_iter + 1)
       THEN /\ Len(pcmf32) >= n_samples_keep
            /\ pcmf32_old' = KeepTail(pcmf32)
            /\ prompt_tokens' = RefreshPrompt(prompt_tokens, results)
       ELSE UNCHANGED <<pcmf32_old, prompt_tokens>>
    /\ pc' = "loop_test"
    /\ UNCHANGED <<params, g_interrupt_received, g_is_recording, is_running,
                   pcmf32, pcmf32_new, audio, now, t_last, results, acc,
                   cancel_seen, pull_kind, dropped, last_infer, old_before,
                   fin_log, sig, configured, segment_vars,
                   session_vars>>

\* the same with a chunk shorter than n_samples_keep: the range starts before
\* the buffer (undefined behaviour): a fault, or whatever memory holds there
AdvanceOutOfRange ==
    /\ pc = "advance"
    /\ IsNewLine(n_iter + 1)
    /\ Len(pcmf32) < n_samples_keep
    /\ n_iter' = n_iter + 1
    /\ \/ pc' = "crashed" /\ UNCHANGED <<pcmf32_old, prompt_tokens>>
       \/ /\ pc' = "loop_test"
          /\ pcmf32_old' = [i \in 1..(n_samples_keep - Len(pcmf32)) |-> -1] \o pcmf32
          /\ prompt_tokens' = RefreshPrompt(prompt_tokens, results)
    /\ UNCHANGED <<params, g_interrupt_received, g_is_recording, is_running,
                   pcmf32, pcmf32_new, audio, now, t_last, results, acc,
                   cancel_seen, pull_kind, dropped, last_infer, old_before,
                   fin_log, sig, configured, segment_vars,
                   session_vars>>

(***************************************************************************)
(* main(): after the loop.                                                 *)
(***************************************************************************)
\* variant: the recording flag is cleared as soon as capture is paused
PauseClearsRecording ==
    /\ pc = "pause"
    /\ audio' = [audio EXCEPT !.paused = TRUE]
    /\ g_is_recording' = FALSE
    /\ pc' = "fin_copy"
    /\ UNCHANGED <<params, g_interrupt_received, is_running,
                   pcmf32, pcmf32_old, pcmf32_new, n_iter, now, t_last,
                   results, acc, cancel_seen, pull_kind, dropped, last_infer,
                   old_before, fin_log, sig, prompt_tokens, configured,
                   segment_vars, session_vars>>

\* audio.pause()
Pause ==
    /\ pc = "pause"
    /\ audio' = [audio EXCEPT !.paused = TRUE]
    /\ pc' = "fin_copy"
    /\ UNCHANGED <<params, g_interrupt_received, g_is_recording, is_running,
                   pcmf32, pcmf32_old, pcmf32_new, n_iter, now, t_last,
                   results, acc, cancel_seen, pull_kind, dropped, last_infer,
                   old_before, fin_log, sig, prompt_tokens, configured,
                   segment_vars, session_vars>>

\* variant: export runs before auto-copy
FinalizersExportFirst ==
    << <<"export", params.export_enabled>>,
       <<"auto_copy", params.auto_copy_enabled>>,
       <<"meeting", params.meeting_mode>> >>

\* the finalizers in program order: <<name, enabled>>
Finalizers ==
    << <<"auto_copy", params.auto_copy_enabled>>,
       <<"export", params.export_enabled>>,
       <<"meeting", params.meeting_mode>> >>

\* pc before, inside and after the i-th finalizer
FinPc(i) == <<"fin_copy", "fin_export", "fin_meeting", "clear_rec">>[i]
InPc(i) == <<"in_copy", "in_export", "in_meeting">>[i]

\* variant: a pending interrupt skips the finalizer
FinalizerCallCancelable(i) ==
    /\ pc = FinPc(i)
    /\ pc' = IF Finalizers[i][2] /\ ~g_interrupt_received THEN InPc(i) ELSE FinPc(i + 1)
    /\ UNCHANGED <<params, g_interrupt_received, g_is_recording, is_running,
                   pcmf32, pcmf32_old, pcmf32_new, n_iter, audio, now, t_last,
                   results, acc, cancel_seen, pull_kind, dropped, last_infer,
                   old_before, fin_log, sig, prompt_tokens, configured,
                   segment_vars, session_vars>>

\* if (enabled) call the i-th finalizer
FinalizerCall(i) ==
    /\ pc = FinPc(i)
    /\ pc' = IF Finalizers[i][2] THEN InPc(i) ELSE FinPc(i + 1)
    /\ UNCHANGED <<params, g_interrupt_received, g_is_recording, is_running,
                   pcmf32, pcmf32_old, pcmf32_new, n_iter, audio, now, t_last,
                   results, acc, cancel_seen, pull_kind, dropped, last_infer,
                   old_before, fin_log, sig, prompt_tokens, configured,
                   segment_vars, session_vars>>

\* the i-th finalizer returns
FinalizerReturn(i) ==
    /\ pc = InPc(i)
    /\ fin_log' = Append(fin_log, Finalizers[i][1])
    /\ pc' = FinPc(i + 1)
    /\ UNCHANGED <<params, g_interrupt_received, g_is_recording, is_running,
                   pcmf32, pcmf32_old, pcmf32_new, n_iter, audio, now, t_last,
                   results, acc, cancel_seen, pull_kind, dropped, last_infer,
                   old_before, sig, prompt_tokens, configured, segment_vars,
                   session_vars>>

\* if (params.auto_copy_enabled) perform_auto_copy(...)
AutoCopyCall == FinalizerCall(1)
AutoCopyReturn == FinalizerReturn(1)
\* if (params.export_enabled) perform_export(...)
ExportCall == FinalizerCall(2)
ExportReturn == FinalizerReturn(2)
\* if (params.meeting_mode) { process_meeting_transcription, fallback file }
MeetingCall == FinalizerCall(3)
MeetingReturn == FinalizerReturn(3)

\* g_is_recording.store(false)
ClearRecording ==
    /\ pc = "clear_rec"
    /\ g_is_recording' = FALSE
    /\ pc' = "cleanup"
    /\ UNCHANGED <<params, g_interrupt_received, is_running, pcmf32, pcmf32_old,
                   pcmf32_new, n_iter, audio, now, t_last, results, acc,
                   cancel_seen, pull_kind, dropped, last_infer, old_before,
                   fin_log, sig, prompt_tokens, configured, segment_vars,
                   session_vars>>

\* whisper_print_timings, whisper_free, return 0
Return0 ==
    /\ pc = "cleanup"
    /\ pc' = "done"
    /\ UNCHANGED <<params, g_interrupt_received, g_is_recording, is_running,
                   pcmf32, pcmf32_old, pcmf32_new, n_iter, audio, now, t_last,
                   results, acc, cancel_seen, pull_kind, dropped, last_infer,
                   old_before, fin_log, sig, prompt_tokens, configured,
                   segment_vars, session_vars>>

Next ==
    \/ SignalHandler
    \/ Setup
    \/ InitModel
    \/ LoopTest
    \/ PollTop
    \/ InnerPoll
    \/ Backpressure
    \/ AcceptPull
    \/ ShortPull
    \/ Compose
    \/ VadThrottle
    \/ VadDetect
    \/ VadSilence
    \/ Infer
    \/ Dispatch
    \/ Advance
    \/ AdvanceOutOfRange
    \/ Pause
    \/ AutoCopyCall
    \/ AutoCopyReturn
    \/ ExportCall
    \/ ExportReturn
    \/ MeetingCall
    \/ MeetingReturn
    \/ ClearRecording
    \/ Return0

Spec == Init /\ [][Next]_vars

\* main() is a running thread: it takes its next step as long as it has one
\* (the interrupts are finitely many)
SpecLive == Init /\ [][Next]_vars /\ WF_vars(Next)

(***************************************************************************)
(* The set-up of main() over every window configuration.                   *)
(***************************************************************************)
\* the largest configured window value, in seconds
MaxWindowSec == 3
\* the values of step_ms, length_ms and keep_ms
WindowValues == {1000 * v : v \in -1..MaxWindowSec}

InitWindow ==
    /\ \E w \in WindowValues \X WindowValues \X WindowValues :
         /\ params = Configured(w, <<FALSE, FALSE, FALSE, TRUE, FALSE>>)
         /\ configured = w
    /\ InitState

NextWindow ==
    \/ Setup
    \/ InitModel

SpecWindow == InitWindow /\ [][NextWindow]_vars

(***************************************************************************)
(* process_audio_segment(): one call per chunk, the inference engine       *)
(* (whisper_full on a model handle) as a nondeterministic collaborator.    *)
(***************************************************************************)
\* segments the first pass returns
MaxOriginal == 2
\* segments the second pass returns
MaxTranslated == 2
\* chunks handed to process_audio_segment
MaxChunks == 2
\* params.auto_copy_max_size_bytes, in pieces of text
MaxSizeBytes == 3
\* params.auto_copy_max_duration_hours
MaxDurationHours == 2

\* token probabilities are multiples of ProbUnit, so that the halvings of a
\* merge are exact: 2 * ProbUnit stands for probability 1
ProbUnit == 2 ^ (MaxTranslated + 1)

OutputModes == {"original", "english", "bilingual"}
Chunks == {<<1>>, <<1, 2>>}

\* segments the engine may return for the first call
OrigMenu ==
    { [t0 |-> 2, t1 |-> 4, text |-> <<"hola">>, tokens |-> <<2 * ProbUnit>>,
       turn |-> FALSE],
      [t0 |-> 0, t1 |-> 2, text |-> <<"que">>, tokens |-> <<>>, turn |-> TRUE] }

\* segments the engine may return for the translating call
TransMenu ==
    { [t0 |-> 1, t1 |-> 3, text |-> <<"hello">>, tokens |-> <<2 * ProbUnit>>,
       turn |-> FALSE],
      [t0 |-> 3, t1 |-> 5, text |-> <<"there">>, tokens |-> <<ProbUnit, ProbUnit>>,
       turn |-> FALSE],
      [t0 |-> 4, t1 |-> 6, text |-> <<"far">>, tokens |-> <<2 * ProbUnit>>,
       turn |-> FALSE],
      [t0 |-> 1, t1 |-> 3, text |-> <<>>, tokens |-> <<ProbUnit>>,
       turn |-> FALSE],
      [t0 |-> 3, t1 |-> 5, text |-> <<"what">>, tokens |-> <<>>,
       turn |-> FALSE] }

SeqsUpTo(S, n) == UNION {[1..k -> S] : k \in 0..n}

RECURSIVE SumSeq(_)
SumSeq(q) == IF q = <<>> THEN 0 ELSE Head(q) + SumSeq(Tail(q))

\* the mean of whisper_full_get_token_p over the tokens, 0 without tokens
Confidence(seg) ==
    IF Len(seg.tokens) > 0 THEN SumSeq(seg.tokens) \div Len(seg.tokens) ELSE 0

\* variant: segments that touch count as overlapping
OverlapsTouching(a, b) == Min(a.t1, b.t1) >= Max(a.t0, b.t0)

\* overlap_end > overlap_start
Overlaps(a, b) == Min(a.t1, b.t1) > Max(a.t0, b.t0)

\* the scan over the translated segments: text and confidence so far
RECURSIVE MergeTranslated(_, _, _, _)
MergeTranslated(text, conf, seg, trans) ==
    IF trans = <<>> THEN [text |-> text, conf |-> conf]
    ELSE LET t == Head(trans) IN
         IF Overlaps(seg, t)
         THEN MergeTranslated(
                  IF text = <<>> THEN t.text ELSE text \o <<" ">> \o t.text,
                  IF Len(t.tokens) > 0 THEN (conf + Confidence(t)) \div 2 ELSE conf,
                  seg, Tail(trans))
         ELSE MergeTranslated(text, conf, seg, Tail(trans))

\* the BilingualSegment of an "original" run
OriginalSegment(seg) ==
    [t0 |-> seg.t0, t1 |-> seg.t1, original_text |-> seg.text,
     english_text |-> <<>>, original_confidence |-> Confidence(seg),
     english_confidence |-> 0, speaker_turn |-> seg.turn]

\* the BilingualSegment of an "english" run
EnglishSegment(seg) ==
    [t0 |-> seg.t0, t1 |-> seg.t1, original_text |-> <<>>,
     english_text |-> seg.text, original_confidence |-> 0,
     english_confidence |-> Confidence(seg), speaker_turn |-> seg.turn]

\* the BilingualSegment of a "bilingual" run
MergedSegment(seg, trans) ==
    LET m == MergeTranslated(<<>>, 0, seg, trans) IN
    [t0 |-> seg.t0, t1 |-> seg.t1, original_text |-> seg.text,
     english_text |-> m.text, original_confidence |-> Confidence(seg),
     english_confidence |-> m.conf, speaker_turn |-> seg.turn]

\* variant: a translated segment is used up by the first original segment
\* it overlaps
ExtractedConsuming(mode, orig, trans) ==
    [i \in 1..Len(orig) |->
        CASE mode = "original" -> OriginalSegment(orig[i])
          [] mode = "english" -> EnglishSegment(orig[i])
          [] OTHER ->
               LET Free(t) == \A k \in 1..(i - 1) : ~Overlaps(orig[k], t)
               IN MergedSegment(orig[i], SelectSeq(trans, Free))]

\* bilingual_results of a successful run
Extracted(mode, orig, trans) ==
    [i \in 1..Len(orig) |->
        CASE mode = "original" -> OriginalSegment(orig[i])
          [] mode = "english" -> EnglishSegment(orig[i])
          [] OTHER -> MergedSegment(orig[i], trans)]

\* variant: the first call always translates
FirstTranslateAlways(mode) == TRUE

\* wparams.translate of the first whisper_full call
FirstTranslate(mode) == mode = "english"

\* variant: the second pass runs on the primary handle
SecondHandleShared == "ctx"

\* the handle of the second whisper_full call
SecondHandle == "ctx_translate"

\* the variables process_audio_segment does not touch
loop_vars == <<g_interrupt_received, g_is_recording, is_running, pcmf32_old,
               pcmf32_new, audio, now, t_last, acc, cancel_seen, pull_kind,
               dropped, last_infer, old_before, fin_log, sig, prompt_tokens,
               configured, params, session_vars>>

InitSegment ==
    /\ pc = "seg_chunk"
    /\ \E m \in OutputModes : params = [output_mode |-> m]
    /\ configured = <<>>
    /\ InitLocals

\* main(): a chunk is ready; std::vector<BilingualSegment> bilingual_results
SegChunk ==
    /\ pc = "seg_chunk"
    /\ n_iter < MaxChunks
    /\ \E chunk \in Chunks : pcmf32' = chunk
    /\ results' = <<>>
    /\ pc' = "seg_entry"
    /\ UNCHANGED <<n_iter, ctx, ctx_translate, calls, loop_vars>>

\* wparams set up; bilingual_results.clear(); branch on output_mode
SegEnter ==
    /\ pc = "seg_entry"
    /\ results' = <<>>
    /\ calls' = <<>>
    /\ pc' = "first_call"
    /\ UNCHANGED <<n_iter, pcmf32, ctx, ctx_translate, loop_vars>>

\* whisper_full(handle, ...) is entered: the handle's previous result is gone
Called(h, translate) ==
    /\ calls' = Append(calls, [ev |-> "call", handle |-> h,
                               translate |-> translate, samples |-> pcmf32])
    /\ IF h = "ctx"
       THEN ctx' = <<>> /\ UNCHANGED ctx_translate
       ELSE ctx_translate' = <<>> /\ UNCHANGED ctx

\* whisper_full(handle, ...) returns rc, holding segs when rc = 0
Returned(h, rc, segs) ==
    /\ calls' = Append(calls, [ev |-> "return", handle |-> h, rc |-> rc])
    /\ IF rc # 0 THEN UNCHANGED <<ctx, ctx_translate>>
       ELSE IF h = "ctx"
            THEN ctx' = segs /\ UNCHANGED ctx_translate
            ELSE ctx_translate' = segs /\ UNCHANGED ctx

\* whisper_full(ctx, wparams, pcmf32.data(), pcmf32.size()) is called
FirstCall ==
    /\ pc = "first_call"
    /\ Called("ctx", FirstTranslate(params.output_mode))
    /\ pc' = "in_first"
    /\ UNCHANGED <<n_iter, pcmf32, results, loop_vars>>

\* it returns: != 0 is return -1
FirstReturn ==
    /\ pc = "in_first"
    /\ \E rc \in {0, 1}, segs \in SeqsUpTo(OrigMenu, MaxOriginal) :
         /\ Returned("ctx", rc, segs)
         /\ pc' = IF rc # 0 THEN "exit6"
                  ELSE IF params.output_mode = "bilingual" THEN "second_call"
                  ELSE "extract"
    /\ UNCHANGED <<n_iter, pcmf32, results, loop_vars>>

\* whisper_full(ctx_translate, wparams, ...) with wparams.translate = true
SecondCall ==
    /\ pc = "second_call"
    /\ Called(SecondHandle, TRUE)
    /\ pc' = "in_second"
    /\ UNCHANGED <<n_iter, pcmf32, results, loop_vars>>

\* it returns: != 0 is return -1
SecondReturn ==
    /\ pc = "in_second"
    /\ \E rc \in {0, 1}, segs \in SeqsUpTo(TransMenu, MaxTranslated) :
         /\ Returned(SecondHandle, rc, segs)
         /\ pc' = IF rc # 0 THEN "exit6" ELSE "extract"
    /\ UNCHANGED <<n_iter, pcmf32, results, loop_vars>>

\* the segments are extracted (merged in bilingual mode); return 0
Extract ==
    /\ pc = "extract"
    /\ results' = Extracted(params.output_mode, ctx, ctx_translate)
    /\ pc' = "seg_ok"
    /\ UNCHANGED <<n_iter, pcmf32, ctx, ctx_translate, calls, loop_vars>>

\* main(): the results are printed, ++n_iter, the next chunk is awaited
SegLeave ==
    /\ pc = "seg_ok"
    /\ n_iter' = n_iter + 1
    /\ pc' = "seg_chunk"
    /\ UNCHANGED <<pcmf32, results, ctx, ctx_translate, calls, loop_vars>>

NextSegment ==
    \/ SegChunk
    \/ SegEnter
    \/ FirstCall
    \/ FirstReturn
    \/ SecondCall
    \/ SecondReturn
    \/ Extract
    \/ SegLeave

SpecSegment == InitSegment /\ [][NextSegment]_vars

(***************************************************************************)
(* print_bilingual_results(): the segments of a chunk are appended to the  *)
(* three sessions.  A text is a sequence of pieces (words, separators,     *)
(* prefixes); each piece stands for one byte of the buffer.                *)
(***************************************************************************)
\* milliseconds in std::chrono::hours
HourMs == 3600000

\* variant: a started hour counts as a whole one
HoursStarted(t) == (t + HourMs - 1) \div HourMs

\* duration_cast<std::chrono::hours>(now - session.start_time).count(), the
\* session started at 0
Hours(t) == t \div HourMs

\* variant: the session may be copied again
should_auto_copy_again(session, p, t) ==
    /\ p.auto_copy_enabled
    /\ ~(Hours(t) > p.auto_copy_max_duration_hours)
    /\ ~(Len(session.transcription_buffer) > p.auto_copy_max_size_bytes)

\* should_auto_copy(session, params) when the clock reads t
should_auto_copy(session, p, t) ==
    /\ p.auto_copy_enabled
    /\ ~session.has_been_copied
    /\ ~(Hours(t) > p.auto_copy_max_duration_hours)
    /\ ~(Len(session.transcription_buffer) > p.auto_copy_max_size_bytes)

\* main(): params.no_timestamps = !use_vad; the caps of the auto-copy
PrintParams(m, vad, e) ==
    [output_mode |-> m, no_timestamps |-> ~vad, language |-> "en",
     auto_copy_enabled |-> e[1], export_enabled |-> e[2],
     meeting_mode |-> e[3], print_colors |-> FALSE,
     auto_copy_max_duration_hours |-> MaxDurationHours,
     auto_copy_max_size_bytes |-> MaxSizeBytes]

\* "[" + to_timestamp(seg.t0) + " --> " + to_timestamp(seg.t1) + "]  "
timestamp_prefix(seg) ==
    <<"[", ToString(10 * seg.t0), " --> ", ToString(10 * seg.t1), "]  ">>

lang_code(p) == IF p.language = "auto" THEN "orig" ELSE p.language

SpeakerTurn(seg) == IF seg.speaker_turn THEN <<" [SPEAKER_TURN]">> ELSE <<>>

\* what one segment adds to auto_copy_session.transcription_buffer
CopyText(p, seg) ==
    IF p.no_timestamps
    THEN CASE p.output_mode = "original" -> seg.original_text
           [] p.output_mode = "english" -> seg.english_text
           [] OTHER -> <<lang_code(p), ": ">> \o seg.original_text \o <<"\n">>
                       \o <<"en: ">> \o seg.english_text \o <<"\n">>
    ELSE CASE p.output_mode = "original" ->
                timestamp_prefix(seg) \o seg.original_text \o SpeakerTurn(seg)
                \o <<"\n">>
           [] p.output_mode = "english" ->
                timestamp_prefix(seg) \o seg.english_text \o SpeakerTurn(seg)
                \o <<"\n">>
           [] OTHER ->
                timestamp_prefix(seg) \o <<lang_code(p), ": ">>
                \o seg.original_text \o <<"\n">> \o timestamp_prefix(seg)
                \o <<"en: ">> \o seg.english_text \o SpeakerTurn(seg)
                \o <<"\n">>

\* seg.t0 / 10, seg.t1 / 10
Scaled(t) == t \div 10

\* the TranscriptionSegment one segment adds to export_session.segments
ExportRecord(p, seg) ==
    [start_time_ms |-> IF p.no_timestamps THEN 0 ELSE Scaled(seg.t0),
     end_time_ms |-> IF p.no_timestamps THEN 0 ELSE Scaled(seg.t1),
     text |-> CASE p.output_mode = "original" -> seg.original_text
                [] p.output_mode = "english" -> seg.english_text
                [] OTHER -> <<lang_code(p), ": ">> \o seg.original_text
                            \o <<"\nen: ">> \o seg.english_text,
     confidence |-> CASE p.output_mode = "original" -> seg.original_confidence
                      [] p.output_mode = "english" -> seg.english_confidence
                      [] OTHER -> (seg.original_confidence
                                   + seg.english_confidence) \div 2,
     speaker_turn |-> seg.speaker_turn]

\* what one segment adds to meeting_session->transcription_buffer
MeetingText(p, seg) ==
    IF p.no_timestamps
    THEN CASE p.output_mode = "original" -> seg.original_text
           [] p.output_mode = "english" -> seg.english_text
           [] OTHER -> seg.original_text \o <<" ">> \o seg.english_text
                       \o <<"\n">>
    ELSE CASE p.output_mode = "original" -> seg.original_text \o <<" ">>
           [] p.output_mode = "english" -> seg.english_text \o <<" ">>
           [] OTHER -> seg.original_text \o <<" ">> \o seg.english_text
                       \o <<" ">>

\* variant: a record is put in front of the log
EmplaceFront(log, rec) == <<rec>> \o log

\* export_session.segments.emplace_back(...)
EmplaceBack(log, rec) == Append(log, rec)

\* the body of the loop of print_bilingual_results for one segment; s holds
\* the three sessions, t is the clock
PrintSegment(p, s, seg, t) ==
    [copy |-> IF p.auto_copy_enabled /\ should_auto_copy(s.copy, p, t)
              THEN [s.copy EXCEPT !.transcription_buffer = @ \o CopyText(p, seg)]
              ELSE s.copy,
     export |-> IF p.export_enabled
                THEN [s.export EXCEPT
                        !.segments = EmplaceBack(@, ExportRecord(p, seg))]
                ELSE s.export,
     meeting |-> IF p.meeting_mode
                 THEN [s.meeting EXCEPT
                         !.transcription_buffer = @ \o MeetingText(p, seg)]
                 ELSE s.meeting]

RECURSIVE PrintAll(_, _, _, _)
\* for (const auto& seg : segments)
PrintAll(p, s, segs, t) ==
    IF segs = <<>> THEN s
    ELSE PrintAll(p, PrintSegment(p, s, Head(segs), t), Tail(segs), t)

\* segments the engine may return for a chunk, in ticks of 10 ms
PrintOrigMenu ==
    LET a == [t0 |-> 25, t1 |-> 50, text |-> <<"hola">>,
              tokens |-> <<2 * ProbUnit>>, turn |-> FALSE]
        b == [t0 |-> 50, t1 |-> 75, text |-> <<"que">>, tokens |-> <<>>,
              turn |-> TRUE]
    IN {<<>>, <<a>>, <<a, b>>}

\* segments the engine may return for the translating call of a chunk
PrintTransMenu ==
    LET a == [t0 |-> 20, t1 |-> 45, text |-> <<"hello">>,
              tokens |-> <<2 * ProbUnit>>, turn |-> FALSE]
        b == [t0 |-> 55, t1 |-> 80, text |-> <<"what">>,
              tokens |-> <<2 * ProbUnit>>, turn |-> FALSE]
    IN {<<>>, <<a>>, <<b, a>>}

\* the dispatched segments as the history keeps them: chunk, position in
\* the chunk, the segment and the first-pass segment it was built from
Tagged(n, segs, first) ==
    [i \in 1..Len(segs) |->
        [chunk |-> n, idx |-> i, seg |-> segs[i], first |-> first[i]]]

\* the variables print_bilingual_results and its caller's loop do not touch
print_frame == <<g_interrupt_received, g_is_recording, is_running, pcmf32,
                 pcmf32_old, pcmf32_new, audio, now, t_last, cancel_seen,
                 pull_kind, dropped, last_infer, old_before, fin_log, sig,
                 prompt_tokens, configured, params, calls, out>>

InitPrint ==
    /\ pc = "print_chunk"
    /\ \E m \in OutputModes, vad \in BOOLEAN, e \in EnableSet :
          params = PrintParams(m, vad, e)
    /\ configured = <<>>
    /\ InitLocals

\* main(): process_audio_segment returned the bilingual_results of a chunk
PrintChunk ==
    /\ pc = "print_chunk"
    /\ n_iter < MaxChunks
    /\ \E orig \in PrintOrigMenu :
       \E trans \in IF params.output_mode = "bilingual" THEN PrintTransMenu
                    ELSE {<<>>} :
          /\ ctx' = orig
          /\ ctx_translate' = trans
          /\ results' = Extracted(params.output_mode, orig, trans)
    /\ pc' = "print"
    /\ UNCHANGED <<n_iter, acc, auto_copy_session, export_session,
                   meeting_session, print_frame>>

\* main(): print_bilingual_results(bilingual_results, params, ...); ++n_iter
PrintResults ==
    /\ pc = "print"
    /\ LET s == PrintAll(params,
                         [copy |-> auto_copy_session, export |-> export_session,
                          meeting |-> meeting_session], results, now)
       IN /\ auto_copy_session' = s.copy
          /\ export_session' = s.export
          /\ meeting_session' = s.meeting
    /\ acc' = Dispatched(acc, Tagged(n_iter, results, ctx))
    /\ n_iter' = n_iter + 1
    /\ pc' = "print_chunk"
    /\ UNCHANGED <<results, ctx, ctx_translate, print_frame>>

NextPrint ==
    \/ PrintChunk
    \/ PrintResults

SpecPrint == InitPrint /\ [][NextPrint]_vars

(***************************************************************************)
(* The auto-copy session: text is appended to it while chunks are printed, *)
(* perform_auto_copy flushes it to the clipboard (pbcopy).  The clock      *)
(* advances in half hours; the operations come in any order.               *)
(***************************************************************************)
\* half hours a session lasts
MaxHalfHours == 7
\* calls of perform_auto_copy on a session
MaxCopyCalls == 2

HalfHourMs == HourMs \div 2

\* " \t\n\r\f\v" as pieces of text
Whitespace == {" ", "\n"}

RECURSIVE TrimLeft(_)
\* str.find_first_not_of(" \t\n\r\f\v")
TrimLeft(text) ==
    IF text # <<>> /\ Head(text) \in Whitespace THEN TrimLeft(Tail(text))
    ELSE text

RECURSIVE TrimRight(_)
\* str.find_last_not_of(" \t\n\r\f\v")
TrimRight(text) ==
    IF text # <<>> /\ text[Len(text)] \in Whitespace
    THEN TrimRight(SubSeq(text, 1, Len(text) - 1))
    ELSE text

trim_whitespace(text) == TrimRight(TrimLeft(text))

\* pieces a printed segment may add to the buffer
CopyPieces == {<<" ">>, <<"hola">>, <<"hola", "\n">>}

Reported(o, what) == [o EXCEPT !.reports = Append(@, what)]

\* copy_to_clipboard_macos(content) is called and returns ok
Clipboard(o, content, ok) ==
    [o EXCEPT !.clipboard = Append(@, [content |-> content, ok |-> ok])]

\* perform_auto_copy(session, params): the clock reads t1 in should_auto_copy
\* and t2 afterwards; pbcopy succeeds or not
perform_auto_copy(session, p, o, t1, t2, ok) ==
    LET content == trim_whitespace(session.transcription_buffer) IN
    IF ~should_auto_copy(session, p, t1)
    THEN [session |-> session, out |-> o]
    ELSE IF content = <<>>
    THEN [session |-> session, out |-> Reported(o, "no content to copy")]
    ELSE IF Hours(t2) > p.auto_copy_max_duration_hours
    THEN [session |-> session,
          out |-> Reported(o, "session duration exceeded limit")]
    ELSE IF Len(content) > p.auto_copy_max_size_bytes
    THEN [session |-> session,
          out |-> Reported(o, "content size exceeded limit")]
    ELSE IF ok
    THEN [session |-> [session EXCEPT !.has_been_copied = TRUE],
          out |-> Reported(Clipboard(o, content, TRUE), "Transcription copied")]
    ELSE [session |-> session,
          out |-> Reported(Clipboard(o, content, FALSE),
                           "unable to copy to clipboard")]

\* the variables the auto-copy session does not touch
copy_frame == <<g_interrupt_received, g_is_recording, is_running, pcmf32,
                pcmf32_old, pcmf32_new, n_iter, audio, t_last, results, acc,
                cancel_seen, pull_kind, dropped, last_infer, old_before, sig,
                prompt_tokens, configured, params, segment_vars,
                export_session, meeting_session>>

InitCopy ==
    /\ pc = "session"
    /\ \E e \in EnableSet : params = PrintParams("original", FALSE, e)
    /\ configured = <<>>
    /\ InitLocals

\* the wall clock advances
CopyTick ==
    /\ pc = "session"
    /\ now < MaxHalfHours * HalfHourMs
    /\ now' = now + HalfHourMs
    /\ UNCHANGED <<pc, fin_log, auto_copy_session, out, copy_frame>>

\* variant: the text is added whatever should_auto_copy says
CopyAppendUngated ==
    /\ pc = "session"
    /\ \E text \in CopyPieces :
          auto_copy_session' =
             IF params.auto_copy_enabled
             THEN [auto_copy_session EXCEPT !.transcription_buffer = @ \o text]
             ELSE auto_copy_session
    /\ UNCHANGED <<pc, now, fin_log, out, copy_frame>>

\* print_bilingual_results: a segment is printed
CopyAppend ==
    /\ pc = "session"
    /\ \E text \in CopyPieces :
          auto_copy_session' =
             IF params.auto_copy_enabled
                /\ should_auto_copy(auto_copy_session, params, now)
             THEN [auto_copy_session EXCEPT !.transcription_buffer = @ \o text]
             ELSE auto_copy_session
    /\ UNCHANGED <<pc, now, fin_log, out, copy_frame>>

\* perform_auto_copy(auto_copy_session, params)
CopyPerform ==
    /\ pc = "session"
    /\ Len(fin_log) < MaxCopyCalls
    /\ \E ok \in BOOLEAN, t2 \in {now, Min(now + HalfHourMs,
                                          MaxHalfHours * HalfHourMs)} :
          LET r == perform_auto_copy(auto_copy_session, params, out, now, t2, ok)
          IN /\ auto_copy_session' = r.session
             /\ out' = r.out
             /\ now' = t2
    /\ fin_log' = Append(fin_log, "auto_copy")
    /\ UNCHANGED <<pc, copy_frame>>

NextCopy ==
    \/ CopyTick
    \/ CopyAppend
    \/ CopyPerform

SpecCopy == InitCopy /\ [][NextCopy]_vars

(***************************************************************************)
(* main(): the finalizers after the loop, with the sinks (pbcopy, the      *)
(* export file, the Claude CLI, the file system) as collaborators that     *)
(* succeed or fail.                                                        *)
(***************************************************************************)
\* fallback files that may exist before the session ends
MaxFiles == 2

\* ExportManager::get_supported_formats()
SupportedFormats == {"txt", "md", "json", "csv", "srt", "vtt", "xml"}

\* --export-format values of the model
FormatSet == {"txt", "srt", "pdf"}

\* variant: the duration of the last record
TotalDurationOfLast(segments) ==
    segments[Len(segments)].end_time_ms - segments[Len(segments)].start_time_ms

\* segments.back().end_time_ms - segments.front().start_time_ms
TotalDuration(segments) ==
    segments[Len(segments)].end_time_ms - segments[1].start_time_ms

\* session.metadata as perform_export derives it; total_duration_seconds is
\* total_duration_ms / 1000.0
DerivedMetadata(segments) ==
    [total_segments |-> Len(segments),
     total_duration_ms |-> TotalDuration(segments)]

\* ExportManager::set_metadata on the segments added before
set_metadata(segments, metadata) ==
    IF segments # <<>>
    THEN [metadata EXCEPT !.total_segments = Len(segments),
                          !.total_duration_ms = TotalDuration(segments)]
    ELSE metadata

\* variant: a failed export is announced as completed
ExportOutcomeSilent(ok) == "Export completed successfully"

\* what perform_export prints after export_manager.export_transcription()
ExportOutcome(ok) ==
    IF ok THEN "Export completed successfully" ELSE "Export failed"

\* perform_export(session, params); the export file is written or not
perform_export(session, p, o, ok) ==
    IF ~p.export_enabled \/ session.segments = <<>>
    THEN [session |-> session, out |-> o]
    ELSE IF p.export_format \notin SupportedFormats
    THEN [session |-> session,
          out |-> Reported(o, "Export failed: unsupported format")]
    ELSE LET metadata == DerivedMetadata(session.segments) IN
         [session |-> [session EXCEPT !.metadata = metadata],
          out |-> Reported(
                    [o EXCEPT !.exports =
                        Append(@, [segments |-> session.segments,
                                   metadata |-> set_metadata(session.segments,
                                                             metadata),
                                   format |-> p.export_format,
                                   ok |-> ok])],
                    ExportOutcome(ok))]

\* generate_meeting_filename(params.meeting_name)
MeetingFile == [base |-> "meeting", suffix |-> 0]

\* base + ".md" for k = 0, base + "-" + std::to_string(k) + ".md" otherwise
FallbackFile(k) == [base |-> "date", suffix |-> k]

RECURSIVE FirstUnused(_, _)
\* while (std::filesystem::exists(filename)) { next name; suffix++; }
FirstUnused(files, k) ==
    IF FallbackFile(k) \in files THEN FirstUnused(files, k + 1)
    ELSE FallbackFile(k)

\* variant: the first name is taken whether it exists or not
generate_fallback_filename_first(files) == FallbackFile(0)

\* generate_fallback_filename(): the first name no file has
generate_fallback_filename(files) == FirstUnused(files, 0)

\* a file is created (or truncated) and written
Written(o, name, content) ==
    [o EXCEPT !.written = Append(@, [name |-> name, content |-> content,
                                     existed |-> name \in o.files]),
              !.files = @ \union {name}]

\* outcomes of the Claude CLI: found and run, not found, failed to run, and
\* run with an output file that cannot be created
OrganizeSet == {"ok", "unavailable", "failed", "no_file"}

\* process_meeting_transcription(transcription, prompt, output_file)
process_meeting_transcription(transcription, o, sink) ==
    IF transcription = <<>>
    THEN [success |-> FALSE, out |-> Reported(o, "Error: Empty transcription")]
    ELSE IF sink = "unavailable"
    THEN [success |-> FALSE, out |-> Reported(o, "Error: Claude CLI not found")]
    ELSE IF sink = "failed"
    THEN [success |-> FALSE,
          out |-> Reported(o, "Error: Claude CLI execution failed")]
    ELSE IF sink = "no_file"
    THEN [success |-> FALSE,
          out |-> Reported(o, "Error: Cannot create meeting output file")]
    ELSE [success |-> TRUE,
          out |-> Reported(Written(o, MeetingFile,
                                   <<"organized">> \o transcription),
                           "Meeting transcription processed and saved")]

\* the raw transcription as markdown
RawMarkdown(transcription) ==
    <<"# Meeting Transcription", "**Date**", "**Session ID**",
      "## Raw Transcription">> \o transcription

\* main(): the meeting finalizer; the fallback file can be opened or not
process_meeting(session, o, sink, open) ==
    LET r == process_meeting_transcription(session.transcription_buffer, o, sink)
        fallback_file == generate_fallback_filename(r.out.files)
    IN IF r.success THEN r.out
       ELSE IF open
       THEN Reported(Written(r.out, fallback_file,
                             RawMarkdown(session.transcription_buffer)),
                     "Transcription saved")
       ELSE Reported(r.out, "Failed to save transcription to file")

\* [export_format] added to the parameters of the session
FinalParams(vad, e, format) ==
    [export_format |-> format] @@ PrintParams("original", vad, e)

\* the variables the finalizers do not touch
final_frame == <<g_interrupt_received, is_running, pcmf32, pcmf32_old,
                 pcmf32_new, n_iter, audio, t_last, acc, cancel_seen,
                 pull_kind, dropped, last_infer, old_before, sig,
                 prompt_tokens, configured, params, segment_vars>>

InitFinal ==
    /\ pc = "loop"
    /\ \E vad \in BOOLEAN, e \in EnableSet, format \in FormatSet :
          params = FinalParams(vad, e, format)
    /\ configured = <<>>
    /\ InitLocals

\* main(): the loop has run: the segments of a chunk were printed, the clock
\* has advanced, files of earlier sessions exist; audio.pause()
FinalLoop ==
    /\ pc = "loop"
    /\ \E orig \in PrintOrigMenu :
          LET segs == Extracted(params.output_mode, orig, <<>>)
              s == PrintAll(params,
                            [copy |-> auto_copy_session,
                             export |-> export_session,
                             meeting |-> meeting_session], segs, now)
          IN /\ results' = segs
             /\ auto_copy_session' = s.copy
             /\ export_session' = s.export
             /\ meeting_session' = s.meeting
    /\ \E k \in 0..MaxHalfHours : now' = k * HalfHourMs
    /\ \E files \in SUBSET {FallbackFile(k) : k \in 0..(MaxFiles - 1)} :
          out' = [out EXCEPT !.files = files]
    /\ g_is_recording' = TRUE
    /\ pc' = "fin_copy"
    /\ UNCHANGED <<fin_log, is_running, g_interrupt_received, pcmf32,
                   pcmf32_old, pcmf32_new, n_iter, audio, t_last, acc,
                   cancel_seen, pull_kind, dropped, last_infer, old_before,
                   sig, prompt_tokens, configured, params, segment_vars>>

\* if (params.auto_copy_enabled) perform_auto_copy(auto_copy_session, params)
FinalCopy ==
    /\ pc = "fin_copy"
    /\ IF params.auto_copy_enabled
       THEN /\ \E ok \in BOOLEAN :
                 LET r == perform_auto_copy(auto_copy_session, params, out,
                                            now, now, ok)
                 IN /\ auto_copy_session' = r.session
                    /\ out' = r.out
            /\ fin_log' = Append(fin_log, "auto_copy")
       ELSE UNCHANGED <<auto_copy_session, out, fin_log>>
    /\ pc' = "fin_export"
    /\ UNCHANGED <<now, results, g_is_recording, export_session,
                   meeting_session, final_frame>>

\* if (params.export_enabled) perform_export(export_session, params)
FinalExport ==
    /\ pc = "fin_export"
    /\ IF params.export_enabled
       THEN /\ \E ok \in BOOLEAN :
                 LET r == perform_export(export_session, params, out, ok)
                 IN /\ export_session' = r.session
                    /\ out' = r.out
            /\ fin_log' = Append(fin_log, "export")
       ELSE UNCHANGED <<export_session, out, fin_log>>
    /\ pc' = "fin_meeting"
    /\ UNCHANGED <<now, results, g_is_recording, auto_copy_session,
                   meeting_session, final_frame>>

\* if (params.meeting_mode) { process_meeting_transcription(...); fallback }
FinalMeeting ==
    /\ pc = "fin_meeting"
    /\ IF params.meeting_mode
       THEN /\ \E sink \in OrganizeSet, open \in BOOLEAN :
                 out' = process_meeting(meeting_session, out, sink, open)
            /\ fin_log' = Append(fin_log, "meeting")
       ELSE UNCHANGED <<out, fin_log>>
    /\ pc' = "fin_clear"
    /\ UNCHANGED <<now, results, g_is_recording, auto_copy_session,
                   export_session, meeting_session, final_frame>>

\* g_is_recording.store(false); ...; return 0
FinalReturn ==
    /\ pc = "fin_clear"
    /\ g_is_recording' = FALSE
    /\ pc' = "exit0"
    /\ UNCHANGED <<now, results, fin_log, session_vars, final_frame>>

NextFinal ==
    \/ FinalLoop
    \/ FinalCopy
    \/ FinalExport
    \/ FinalMeeting
    \/ FinalReturn

SpecFinal == InitFinal /\ [][NextFinal]_vars

(***************************************************************************)
(* main(): the set-up in detail (commands, model, audio, language, engine  *)
(* handles, output mode), then the loop and the finalizers in outline.     *)
(* `configured` holds the run as given: the output mode and the translate  *)
(* flag of the command line, and whether the model file is multilingual.   *)
(***************************************************************************)
\* -om / --output-mode values of the model
ModeSet == OutputModes \union {"bogus"}

\* params after whisper_params_parse
SetupParams(w, e, mode, translate) ==
    [output_mode |-> mode, translate |-> translate] @@ Configured(w, e)

\* variant: --translate leaves the output mode alone
NormalizedNever(p) == p

\* if (params.translate) { if (params.output_mode == "original") ... }
Normalized(p) ==
    IF p.translate /\ p.output_mode = "original"
    THEN [p EXCEPT !.output_mode = "english"]
    ELSE p

\* variant: only the bilingual mode needs a multilingual model
needs_bilingual(p) == p.output_mode = "bilingual"

\* bool needs_translation
needs_translation(p) == p.output_mode = "english" \/ p.output_mode = "bilingual"

\* the variables the set-up does not touch
setup_frame == <<g_interrupt_received, pcmf32, pcmf32_old, pcmf32_new, now,
                 t_last, results, cancel_seen, pull_kind, dropped, last_infer,
                 old_before, sig, prompt_tokens, configured, ctx,
                 ctx_translate, auto_copy_session, export_session,
                 meeting_session>>

InitSetup ==
    /\ \E w \in WindowSet, e \in EnableSet, mode \in ModeSet,
          translate \in BOOLEAN, multilingual \in BOOLEAN :
          /\ params = SetupParams(w, e, mode, translate)
          /\ configured = [output_mode |-> mode, translate |-> translate,
                           multilingual |-> multilingual]
    /\ InitState

\* whisper_params_parse, the model commands, model_manager.resolve_model
SetupCommands ==
    /\ pc = "start"
    /\ \E outcome \in {"ok", "parse_fail", "list", "deleted", "delete_fail",
                       "no_model"} :
          /\ pc' = CASE outcome = "ok" -> "audio_init"
                     [] outcome \in {"list", "deleted"} -> "exit0"
                     [] OTHER -> "exit1"
          /\ out' = IF outcome = "no_model"
                    THEN Reported(out, "No model available")
                    ELSE out
    /\ UNCHANGED <<params, g_is_recording, is_running, n_iter, audio, acc,
                   fin_log, calls, setup_frame>>

\* the window is adjusted, the flags derived; audio.init, audio.resume(),
\* g_is_recording.store(true)
SetupAudio ==
    /\ pc = "audio_init"
    /\ params' = DeriveFlags(AdjustWindow(params))
    /\ \E ok \in BOOLEAN :
          IF ok
          THEN /\ audio' = [audio EXCEPT !.paused = FALSE]
               /\ g_is_recording' = TRUE
               /\ out' = out
               /\ pc' = "context"
          ELSE /\ out' = Reported(out, "audio.init() failed")
               /\ pc' = "exit1"
               /\ UNCHANGED <<audio, g_is_recording>>
    /\ UNCHANGED <<is_running, n_iter, acc, fin_log, calls, setup_frame>>

\* the language is checked; whisper_init_from_file_with_params for ctx
SetupContext ==
    /\ pc = "context"
    /\ \E outcome \in {"ok", "bad_language", "ctx_fail"} :
          /\ pc' = CASE outcome = "ok" -> "mode"
                     [] outcome = "bad_language" -> "exit0"
                     [] OTHER -> "exit2"
          /\ out' = CASE outcome = "ok" -> out
                      [] outcome = "bad_language" ->
                            Reported(out, "error: unknown language")
                      [] OTHER ->
                            Reported(out, "error: failed to initialize whisper context")
    /\ UNCHANGED <<params, g_is_recording, is_running, n_iter, audio, acc,
                   fin_log, calls, setup_frame>>

\* the output mode is validated, --translate normalized, the model checked
SetupMode ==
    /\ pc = "mode"
    /\ IF params.output_mode \notin OutputModes
       THEN /\ out' = Reported(out, "error: invalid output mode")
            /\ pc' = "exit1"
            /\ UNCHANGED params
       ELSE /\ params' = Normalized(params)
            /\ LET noticed == IF params' # params
                              THEN Reported(out, "--translate flag detected")
                              ELSE out
               IN IF needs_translation(params') /\ ~configured.multilingual
                  THEN /\ out' = Reported(noticed,
                                   "error: output mode requires a multilingual model")
                       /\ pc' = "exit1"
                  ELSE /\ out' = noticed
                       /\ pc' = "translate_context"
    /\ UNCHANGED <<g_is_recording, is_running, n_iter, audio, acc, fin_log,
                   calls, setup_frame>>

\* variant: a second handle that cannot be initialised is a set-up failure
SetupTranslateExit1 ==
    /\ pc = "translate_context"
    /\ \E ok \in BOOLEAN :
          IF params.output_mode = "bilingual" /\ ~ok
          THEN /\ out' = Reported(out,
                            "error: failed to initialize translation context")
               /\ pc' = "exit1"
          ELSE /\ out' = out
               /\ pc' = "loop"
    /\ UNCHANGED <<params, g_is_recording, is_running, n_iter, audio, acc,
                   fin_log, calls, setup_frame>>

\* whisper_init_from_file_with_params for ctx_translate in bilingual mode
SetupTranslate ==
    /\ pc = "translate_context"
    /\ \E ok \in BOOLEAN :
          IF params.output_mode = "bilingual" /\ ~ok
          THEN /\ out' = Reported(out,
                            "error: failed to initialize translation context")
               /\ pc' = "exit2"
          ELSE /\ out' = out
               /\ pc' = "loop"
    /\ UNCHANGED <<params, g_is_recording, is_running, n_iter, audio, acc,
                   fin_log, calls, setup_frame>>

\* the loop: a chunk is handed to process_audio_segment, which fails or
\* returns the segments that are printed
SetupInfer ==
    /\ pc = "loop"
    /\ is_running
    /\ n_iter < MaxChunks
    /\ calls' = Append(calls, [chunk |-> n_iter + 1,
                               output_mode |-> params.output_mode])
    /\ \E ok \in BOOLEAN :
          IF ok
          THEN /\ acc' = IF params.print_colors THEN acc
                         ELSE Dispatched(acc, Segments(n_iter + 1, 1))
               /\ n_iter' = n_iter + 1
               /\ out' = out
               /\ pc' = "loop"
          ELSE /\ out' = Reported(out, "failed to process audio")
               /\ pc' = "exit6"
               /\ UNCHANGED <<acc, n_iter>>
    /\ UNCHANGED <<params, g_is_recording, is_running, audio, fin_log,
                   setup_frame>>

\* the event source reports termination (or the interrupt flag is seen)
SetupStop ==
    /\ pc = "loop"
    /\ is_running
    /\ is_running' = FALSE
    /\ UNCHANGED <<pc, params, g_is_recording, n_iter, audio, acc, fin_log,
                   calls, out, setup_frame>>

\* audio.pause(); the finalizers; g_is_recording.store(false); return 0
SetupFinish ==
    /\ pc = "loop"
    /\ ~is_running
    /\ audio' = [audio EXCEPT !.paused = TRUE]
    /\ LET enabled == SelectSeq(Finalizers, LAMBDA f : f[2])
       IN fin_log' = [i \in 1..Len(enabled) |-> enabled[i][1]]
    /\ g_is_recording' = FALSE
    /\ pc' = "exit0"
    /\ UNCHANGED <<params, is_running, n_iter, acc, calls, out, setup_frame>>

NextSetup ==
    \/ SetupCommands
    \/ SetupAudio
    \/ SetupContext
    \/ SetupMode
    \/ SetupTranslate
    \/ SetupInfer
    \/ SetupStop
    \/ SetupFinish

SpecSetup == InitSetup /\ [][NextSetup]_vars

(***************************************************************************)
(* main(): the configuration layers.  ConfigManager merges the user file,  *)
(* the project file and the environment, apply_to_params writes the result *)
(* into params, whisper_params_parse applies the command line, and main    *)
(* derives the rest.  `configured` holds the layers as given: for every    *)
(* key the set of values the layer sets (empty when it does not set it).   *)
(***************************************************************************)
ConfigKeys == {"step_ms", "max_tokens"}

\* the layers in the order merge_configs and whisper_params_parse apply them
LayerNames == <<"user", "project", "env", "cli">>

\* the value layer i gives to a key, different for every layer
LayerValue(i, k) == IF k = "step_ms" THEN 1000 * i ELSE 10 * i

\* ConfigManager::merge_configs: a later config overrides an earlier one
\* where it has a value
RECURSIVE merge_configs(_, _)
merge_configs(configs, merged) ==
    IF configs = <<>> THEN merged
    ELSE merge_configs(Tail(configs),
                       [k \in ConfigKeys |->
                           IF Head(configs)[k] # {} THEN Head(configs)[k]
                           ELSE merged[k]])

\* ConfigManager::get_effective_config
get_effective_config(layers) ==
    merge_configs(<<layers.user, layers.project, layers.env>>,
                  [k \in ConfigKeys |-> {}])

\* if (effective.x) params.x = *effective.x
Applied(p, config) ==
    [p EXCEPT !.step_ms = IF config.step_ms # {}
                          THEN CHOOSE v \in config.step_ms : TRUE ELSE @,
              !.max_tokens = IF config.max_tokens # {}
                             THEN CHOOSE v \in config.max_tokens : TRUE ELSE @]

\* whisper_params as constructed
DefaultParams ==
    [max_tokens |-> 32]
    @@ Configured(<<3000, 10000, 200>>, <<FALSE, FALSE, FALSE, TRUE, FALSE>>)

\* the variables the configuration does not touch
config_frame == <<g_interrupt_received, g_is_recording, is_running, pcmf32,
                  pcmf32_old, pcmf32_new, n_iter, audio, now, t_last, results,
                  acc, cancel_seen, pull_kind, dropped, last_infer, old_before,
                  fin_log, sig, prompt_tokens, configured, segment_vars,
                  session_vars>>

InitConfig ==
    /\ \E sets \in [1..4 -> [ConfigKeys -> BOOLEAN]] :
          configured =
             [n \in {LayerNames[i] : i \in 1..4} |->
                 LET i == CHOOSE j \in 1..4 : LayerNames[j] = n IN
                 [k \in ConfigKeys |->
                     IF sets[i][k] THEN {LayerValue(i, k)} ELSE {}]]
    /\ params = DefaultParams
    /\ InitState

\* config_manager.load_config(); config_manager.apply_to_params(params)
ConfigApply ==
    /\ pc = "start"
    /\ params' = Applied(params, get_effective_config(configured))
    /\ pc' = "parse"
    /\ UNCHANGED config_frame

\* whisper_params_parse(argc, argv, params)
ConfigParse ==
    /\ pc = "parse"
    /\ params' = Applied(params, configured.cli)
    /\ pc' = "derive"
    /\ UNCHANGED config_frame

\* main(): keep_ms, length_ms, no_context are adjusted; params.max_tokens = 0
ConfigDerive ==
    /\ pc = "derive"
    /\ params' = [DeriveFlags(AdjustWindow(params)) EXCEPT !.max_tokens = 0]
    /\ pc' = "audio_init"
    /\ UNCHANGED config_frame

NextConfig ==
    \/ ConfigApply
    \/ ConfigParse
    \/ ConfigDerive

SpecConfig == InitConfig /\ [][NextConfig]_vars

(***************************************************************************)
(* Properties.                                                             *)
(***************************************************************************)
IsPrefix(s, t) == Len(s) <= Len(t) /\ s = SubSeq(t, 1, Len(s))

\* the finalizers of the enabled accumulators, in the documented order
ExpectedFinalizers ==
    (IF params.auto_copy_enabled THEN <<"auto_copy">> ELSE <<>>)
    \o (IF params.export_enabled THEN <<"export">> ELSE <<>>)
    \o (IF params.meeting_mode THEN <<"meeting">> ELSE <<>>)

AfterFinalizers == {"clear_rec", "cleanup", "done"}
AccEmpty == acc.copy = <<>> /\ acc.export = <<>> /\ acc.meeting = <<>>
\* the step is one run of signal_handler
HandlerStep == sig'.count = sig.count + 1

\* C1: when the loop is left (event source terminated or interrupt flag set),
\* capture is paused first and then the finalizer of each enabled accumulator
\* runs exactly once, in the order auto-copy, export, meeting.
C1_FinalizeOnceInOrder ==
    /\ IsPrefix(fin_log, ExpectedFinalizers)
    /\ (pc \in (Stopping \cup AfterFinalizers)) =>
          (~is_running \/ g_interrupt_received)
    /\ (pc \in ((Stopping \ {"pause"}) \cup AfterFinalizers)) => audio.paused
    /\ fin_log # <<>> => audio.paused
    /\ pc \in AfterFinalizers => fin_log = ExpectedFinalizers

C1_Witness ==
    /\ pc = "done"
    /\ fin_log = <<"auto_copy", "export", "meeting">>
    /\ g_interrupt_received
    /\ is_running
    /\ last_infer.n > 0

\* C2: once the controller has observed cancellation (interrupt flag set or
\* event source terminated) at the loop test or at a poll point, no inference
\* call is started.
C2_NoInferenceAfterCancel == ~last_infer.cancelled

\* C3 (as stated): an interrupt while the recording flag is false ends the run
\* with no inference call made and every accumulator empty.
C3_IdleInterruptEmptyRun ==
    (pc = "done" /\ sig.idle_at # {}) => (last_infer.n = 0 /\ AccEmpty)

\* C3 (amended): an interrupt while the recording flag is false sets the flag
\* without a prompt and no inference call starts after it; received before
\* capture starts, the loop body is never entered, no inference call is made
\* and every accumulator stays empty. During active capture the flag is set
\* exactly on 'y' or 'Y'; any other key leaves flag and control unchanged.
C3_HandlerStep ==
    HandlerStep =>
        /\ pc' = pc
        /\ IF g_is_recording
           THEN /\ sig'.key \in Keys
                /\ g_interrupt_received' =
                     (g_interrupt_received \/ sig'.key \in {"y", "Y"})
           ELSE sig'.key = "none" /\ g_interrupt_received'

C3_NoInferAfterIdle == sig.idle_at # {} => last_infer' = last_infer

C3_IdleImmediateActiveConfirmed ==
    /\ [](sig.idle_at # {} => g_interrupt_received)
    /\ []("start" \in sig.idle_at =>
            /\ last_infer.n = 0
            /\ AccEmpty
            /\ pc \in {"start", "init_model", "loop_test"} \cup Stopping
                       \cup AfterFinalizers \cup Terminal)
    /\ [][C3_HandlerStep]_vars
    /\ [][C3_NoInferAfterIdle]_vars

C3_Witness ==
    /\ "start" \in sig.idle_at
    /\ sig.count = 2
    /\ sig.declined = 1
    /\ pc = "done"

\* C4 (as stated): in active capture, an interrupt that follows a declined
\* one sets the cancellation flag whatever the answer.
C4_SecondSets ==
    (HandlerStep /\ g_is_recording /\ sig.declined >= 1) => g_interrupt_received'

C4_SecondInterruptStops == [][C4_SecondSets]_vars

\* C4 (amended): in active capture, an interrupt that follows a declined one
\* prompts again and sets the cancellation flag exactly on 'y' or 'Y'.
C4_SecondStep ==
    (HandlerStep /\ g_is_recording /\ sig.declined >= 1) =>
        /\ sig'.key \in Keys
        /\ g_interrupt_received' =
             (g_interrupt_received \/ sig'.key \in {"y", "Y"})
        /\ sig'.declined =
             sig.declined + (IF sig'.key \in {"y", "Y"} THEN 0 ELSE 1)

C4_SecondInterruptPromptsAgain == [][C4_SecondStep]_vars

C4_Witness ==
    /\ sig.count = 2
    /\ sig.declined = 2
    /\ ~g_interrupt_received
    /\ pc = "inner_get"

\* the position that follows p in the finalization sequence
StopSucc(p) ==
    CASE p = "pause" -> "fin_copy"
      [] p = "fin_copy" -> IF params.auto_copy_enabled THEN "in_copy" ELSE "fin_export"
      [] p = "in_copy" -> "fin_export"
      [] p = "fin_export" -> IF params.export_enabled THEN "in_export" ELSE "fin_meeting"
      [] p = "in_export" -> "fin_meeting"
      [] p = "fin_meeting" -> IF params.meeting_mode THEN "in_meeting" ELSE "clear_rec"
      [] p = "in_meeting" -> "clear_rec"
      [] OTHER -> p

\* C5: once the loop is left, an interrupt (whatever its answer, whatever the
\* flag) neither skips nor aborts a finalizer: every step either leaves the
\* position or moves to the next one, and the last finalizer's return finds
\* all enabled finalizers completed.
C5_StoppingStep ==
    pc \in Stopping =>
        /\ pc' \in {pc, StopSucc(pc)}
        /\ IsPrefix(fin_log, fin_log')
        /\ HandlerStep => (pc' = pc /\ fin_log' = fin_log)
        /\ pc' = "clear_rec" => fin_log' = ExpectedFinalizers

C5_FinalizationNotCancelable == [][C5_StoppingStep]_vars

C5_Witness ==
    /\ pc = "done"
    /\ sig.count = 1
    /\ sig.in_stop
    /\ sig.key = "y"
    /\ g_interrupt_received
    /\ fin_log = <<"auto_copy", "export", "meeting">>

\* C6: a continuous-mode pull of more than 2 x step is followed by clear(),
\* and its samples are in no chunk passed to inference.
C6_DroppedNeverInferred ==
    /\ pull_kind = "dropped" => audio.cleared
    /\ Elems(last_infer.chunk) \cap dropped = {}

\* C7 (as stated): after each inference the carry is the last keep_samples
\* samples of the chunk just processed, so 0 <= len(carry) <= keep_samples.
C7_CarryAtMostKeep ==
    (pc = "loop_test" /\ ~use_vad /\ n_iter > 0 /\ ~last_infer.cancelled
       /\ Len(last_infer.new) = n_samples_step) =>
        /\ Len(pcmf32_old) <= n_samples_keep
        /\ pcmf32_old = LastN(n_samples_keep, pcmf32)

\* C7 (amended): after an inference whose count is a multiple of n_new_line
\* the carry holds keep_samples samples, the last keep_samples of the chunk
\* just processed; after any other inference it is the whole chunk just
\* processed. So len(carry) <= max(keep_samples, len(chunk)).
C7_CarryResetEveryNewLine ==
    (pc = "loop_test" /\ ~use_vad /\ n_iter > 0) =>
        LET keep == SamplesOf(params.keep_ms)
            lines == Max(1, params.length_ms \div params.step_ms - 1)
        IN /\ Len(pcmf32_old) <= Max(keep, Len(pcmf32))
           /\ IF n_iter % lines = 0
              THEN /\ Len(pcmf32_old) = keep
                   /\ LastN(Min(keep, Len(pcmf32)), pcmf32_old)
                        = LastN(keep, pcmf32)
              ELSE pcmf32_old = pcmf32

C7_Witness ==
    /\ pc = "loop_test"
    /\ ~use_vad
    /\ n_iter = 1
    /\ n_new_line = 2
    /\ ~last_infer.cancelled
    /\ Len(pcmf32_old) > n_samples_keep

\* C8 (as stated): the carry prefix is at most length_samples - len(new), so
\* a chunk never holds more than length_ms worth of samples.
C8_ChunkWithinLength ==
    (pc = "infer" /\ ~use_vad /\ pull_kind = "accepted"
       /\ Len(pcmf32_new) = n_samples_step) =>
        /\ Len(pcmf32) - Len(pcmf32_new) <= Max(0, n_samples_len - Len(pcmf32_new))
        /\ Len(pcmf32) <= n_samples_len

\* C8 (amended): the carry prefix is at most keep_samples + length_samples -
\* len(new) (and never negative), so a chunk never holds more than
\* max(len(new), keep_samples + length_samples) samples.
C8_ChunkWithinKeepPlusLength ==
    (pc = "infer" /\ ~use_vad) =>
        LET keep == SamplesOf(params.keep_ms)
            len  == SamplesOf(params.length_ms)
            take == Len(pcmf32) - Len(pcmf32_new)
        IN /\ 0 <= take
           /\ take <= Max(0, keep + len - Len(pcmf32_new))
           /\ Len(pcmf32) <= Max(Len(pcmf32_new), keep + len)

C8_Witness ==
    /\ pc = "infer"
    /\ ~use_vad
    /\ pull_kind = "accepted"
    /\ Len(pcmf32) > n_samples_len
    /\ Len(pcmf32) = n_samples_keep + n_samples_len

\* C9: every continuous-mode chunk fed to inference is carry ++ new, new being
\* the samples of the pull accepted in that iteration and carry a suffix of
\* the previous chunk buffer.
C9_ChunkIsCarryPlusAcceptedPull ==
    (last_infer.n > 0 /\ ~use_vad) =>
        LET k == Len(last_infer.chunk) - Len(last_infer.new) IN
        /\ last_infer.kind = "accepted"
        /\ 0 <= k /\ k <= Len(last_infer.old)
        /\ last_infer.chunk = LastN(k, last_infer.old) \o last_infer.new

\* C10: every continuous-mode chunk fed to inference holds at least step and
\* at most 2 x step samples pulled in that iteration.
C10_ChunkHasStepOfNewAudio ==
    (last_infer.n > 0 /\ ~use_vad) =>
        /\ last_infer.kind \in {"accepted", "short", "dropped"}
        /\ n_samples_step <= Len(last_infer.new)
        /\ Len(last_infer.new) <= 2 * n_samples_step

\* C11: for every configured triple, once set-up has adjusted keep_ms to
\* min(keep_ms, step_ms) and length_ms to max(length_ms, step_ms), and before
\* the loop starts, keep_ms <= step_ms <= length_ms.
C11_WindowOrdered ==
    pc \in {"init_model", "loop_test"} =>
        /\ params.step_ms = configured[1]
        /\ params.keep_ms = Min(configured[3], configured[1])
        /\ params.length_ms = Max(configured[2], configured[1])
        /\ params.keep_ms <= params.step_ms
        /\ params.step_ms <= params.length_ms

C11_Witness ==
    /\ pc = "loop_test"
    /\ configured = <<2000, 1000, 3000>>
    /\ params.keep_ms = 2000
    /\ params.length_ms = 2000

\* C13: in VAD mode a tick that starts less than 2000 ms after the last
\* trigger timestamp (initially the stream start) pulls no audio and invokes
\* neither the classifier nor inference; two inference triggers are at least
\* 2000 ms apart.
C13_ThrottledStep ==
    (pc = "vad_tick" /\ now - t_last < 2000 /\ ~HandlerStep) =>
        /\ pc' = "loop_test"
        /\ audio' = audio
        /\ pcmf32_new' = pcmf32_new
        /\ pcmf32' = pcmf32
        /\ pull_kind' = "stale"
        /\ last_infer' = last_infer
        /\ t_last' = t_last

C13_VadThrottle ==
    /\ []((SamplesOf(params.step_ms) <= 0 /\ last_infer.n > 0) =>
            last_infer.t_trig - last_infer.t_prev >= 2000)
    /\ []((SamplesOf(params.step_ms) <= 0 /\ pc = "infer") =>
            now - last_infer.t_trig >= 2000)
    /\ [][C13_ThrottledStep]_vars

C13_Witness ==
    /\ use_vad
    /\ last_infer.n = 2
    /\ last_infer.t_prev = 2000
    /\ last_infer.t_trig = 4000

\* C14: in VAD mode inference runs on a tick only if the classifier returned
\* true for the probe pulled on that tick; on detection the chunk is a pull of
\* length_ms and the trigger timestamp is the tick's; on non-detection there
\* is no inference and the trigger timestamp is unchanged.
C14_TickStep ==
    (pc = "vad_tick" /\ pc' # pc) =>
        /\ pull_kind' = "vad_speech" =>
              /\ pc' = "infer"
              /\ t_last' = now
              /\ Len(pcmf32') <= SamplesOf(params.length_ms)
              /\ pcmf32' = LastN(Len(pcmf32'), audio'.buf)
        /\ pull_kind' # "vad_speech" =>
              /\ pc' = "loop_test"
              /\ t_last' = t_last
              /\ pcmf32' = pcmf32
              /\ last_infer' = last_infer

C14_InferStep ==
    (SamplesOf(params.step_ms) <= 0 /\ last_infer'.n # last_infer.n) =>
        /\ pull_kind = "vad_speech"
        /\ t_last = now

C14_VadGate ==
    /\ []((SamplesOf(params.step_ms) <= 0 /\ pc = "infer") =>
            pull_kind = "vad_speech")
    /\ [][C14_TickStep]_vars
    /\ [][C14_InferStep]_vars

C14_Witness ==
    /\ use_vad
    /\ pc = "dispatch"
    /\ last_infer.kind = "vad_speech"
    /\ last_infer.t_trig = 3000
    /\ now = 3000
    /\ Len(last_infer.chunk) = n_samples_len
    /\ n_samples_len > 0

\* C12: in continuous mode, the inference call that follows every n_new_line-th
\* processed chunk receives as token history the tokens of the segments that
\* chunk produced when context carry-over is enabled; with carry-over disabled
\* every inference call receives an empty token history.
C12_ContextRefreshed ==
    (last_infer.n > 0 /\ ~last_infer.cancelled /\ SamplesOf(params.step_ms) > 0) =>
        LET lines == Max(1, params.length_ms \div params.step_ms - 1) IN
        /\ params.no_context => last_infer.prompt = <<>>
        /\ (~params.no_context /\ last_infer.n > 1
              /\ (last_infer.n - 1) % lines = 0) =>
                last_infer.prompt = last_infer.produced

\* the stream ends with the segments segs
EndsWith(stream, segs) ==
    Len(stream) >= Len(segs) /\ LastN(Len(segs), stream) = segs

\* C20: every segment produced for a processed chunk is appended to every
\* enabled accumulator (auto-copy, export, meeting), whatever the display
\* options, so the enabled accumulators hold identical streams and the export
\* log one record per produced segment.
C20_AccumulatorsFed ==
    (pc = "advance" /\ ~last_infer.cancelled) =>
        /\ params.auto_copy_enabled => EndsWith(acc.copy, results)
        /\ params.export_enabled => EndsWith(acc.export, results)
        /\ params.meeting_mode => EndsWith(acc.meeting, results)
        /\ (params.auto_copy_enabled /\ params.export_enabled) =>
              acc.copy = acc.export
        /\ (params.export_enabled /\ params.meeting_mode) =>
              acc.export = acc.meeting
        /\ (params.auto_copy_enabled /\ params.meeting_mode) =>
              acc.copy = acc.meeting

(***************************************************************************)
(* Properties of process_audio_segment.                                    *)
(***************************************************************************)
\* max(s1, s2) < min(e1, e2)
ClaimOverlap(a, b) ==
    (IF a.t0 > b.t0 THEN a.t0 ELSE b.t0) < (IF a.t1 < b.t1 THEN a.t1 ELSE b.t1)

\* the pass-2 segments that overlap seg, in arrival order
OverlappingOf(seg, trans) ==
    LET Test(t) == ClaimOverlap(seg, t) IN SelectSeq(trans, Test)

\* the texts joined with a single space between consecutive texts
RECURSIVE JoinSpace(_)
JoinSpace(segs) ==
    IF segs = <<>> THEN <<>>
    ELSE IF Len(segs) = 1 THEN segs[1].text
    ELSE segs[1].text \o <<" ">> \o JoinSpace(Tail(segs))

\* confidence c is the mean of the token probabilities
IsMeanOf(c, tokens) ==
    IF tokens = <<>> THEN c = 0 ELSE c * Len(tokens) = SumSeq(tokens)

RECURSIVE SumConfidence(_)
SumConfidence(segs) ==
    IF segs = <<>> THEN 0
    ELSE SumSeq(Head(segs).tokens) \div Max(1, Len(Head(segs).tokens))
         + SumConfidence(Tail(segs))

BilingualDone == pc = "seg_ok" /\ params.output_mode = "bilingual"

\* C15: in bilingual mode the english_text of each pass-1 segment is the texts
\* of exactly the overlapping pass-2 segments, in arrival order, with a single
\* space between consecutive texts.
C15_MergeJoinsOverlapping ==
    BilingualDone =>
        /\ Len(results) = Len(ctx)
        /\ \A i \in 1..Len(results) :
             results[i].english_text = JoinSpace(OverlappingOf(ctx[i], ctx_translate))

\* C16: in bilingual mode a pass-1 segment that no pass-2 segment overlaps
\* (pass 2 may have returned nothing) yields english_text "" and
\* english_confidence 0, and the merge yields one result per pass-1 segment.
C16_NoOverlapFallback ==
    /\ BilingualDone =>
        /\ Len(results) = Len(ctx)
        /\ \A i \in 1..Len(results) :
             OverlappingOf(ctx[i], ctx_translate) = <<>> =>
                /\ results[i].english_text = <<>>
                /\ results[i].english_confidence = 0
                /\ results[i].original_text = ctx[i].text
    /\ (pc = "extract" /\ params.output_mode = "bilingual") =>
          ENABLED Extract

C16_Witness ==
    /\ BilingualDone
    /\ Len(ctx) = 1
    /\ ctx[1].t0 = 2
    /\ ctx_translate # <<>>
    /\ OverlappingOf(ctx[1], ctx_translate) = <<>>
    /\ results[1].english_text = <<>>

\* C17: the english_confidence of a merged segment is the average of the
\* confidences of the pass-2 segments merged into it.
C17_ConfidenceIsAverage ==
    BilingualDone =>
        \A i \in 1..Len(results) :
            LET merged == OverlappingOf(ctx[i], ctx_translate) IN
            merged # <<>> =>
                results[i].english_confidence * Len(merged) = SumConfidence(merged)

\* the events of the calls a run makes
CallEvent(h, translate) ==
    [ev |-> "call", handle |-> h, translate |-> translate, samples |-> pcmf32]
ReturnEvent(h) == [ev |-> "return", handle |-> h, rc |-> 0]

\* C18: in output mode original (english) a processed chunk causes exactly one
\* inference call, with translate = false (true), and the result has one
\* BilingualSegment per returned segment, in order, with only the original
\* (english) text and confidence populated, the other side "" and 0.
C18_SinglePass ==
    (pc = "seg_ok" /\ params.output_mode \in {"original", "english"}) =>
        LET english == params.output_mode = "english" IN
        /\ calls = <<CallEvent("ctx", english), ReturnEvent("ctx")>>
        /\ Len(results) = Len(ctx)
        /\ \A i \in 1..Len(results) :
             LET r == results[i]
                 mine == IF english THEN r.english_text ELSE r.original_text
                 other == IF english THEN r.original_text ELSE r.english_text
                 mine_c == IF english THEN r.english_confidence
                           ELSE r.original_confidence
                 other_c == IF english THEN r.original_confidence
                            ELSE r.english_confidence
             IN /\ r.t0 = ctx[i].t0 /\ r.t1 = ctx[i].t1
                /\ mine = ctx[i].text
                /\ IsMeanOf(mine_c, ctx[i].tokens)
                /\ other = <<>>
                /\ other_c = 0

C18_Witness ==
    /\ pc = "seg_ok"
    /\ params.output_mode = "english"
    /\ n_iter = 1
    /\ Len(results) = 1
    /\ results[1].english_text = <<"hola">>
    /\ results[1].english_confidence = 2 * ProbUnit

\* the positions inside process_audio_segment after its set-up
InSegment == {"first_call", "in_first", "second_call", "in_second", "extract",
              "seg_ok"}

\* C19: in bilingual mode a processed chunk causes exactly two inference calls
\* over the same sample buffer, one after the other: pass 1 with translate =
\* false on the primary handle, then, after it has returned, pass 2 with
\* translate = true on a second, distinct handle; no other chunk comes between.
C19_Sequence ==
    <<CallEvent("ctx", FALSE), ReturnEvent("ctx"),
      CallEvent("ctx_translate", TRUE), ReturnEvent("ctx_translate")>>

C19_Positions ==
    (params.output_mode = "bilingual" /\ pc \in InSegment) =>
        /\ IsPrefix(calls, C19_Sequence)
        /\ Len(calls) = CASE pc = "first_call" -> 0
                          [] pc = "in_first" -> 1
                          [] pc = "second_call" -> 2
                          [] pc = "in_second" -> 3
                          [] OTHER -> 4

C19_SameChunk ==
    (pc \in InSegment /\ pc # "seg_ok") => (pcmf32' = pcmf32 /\ n_iter' = n_iter)

C19_TwoPassesInOrder ==
    /\ []C19_Positions
    /\ [][C19_SameChunk]_vars

C19_Witness ==
    /\ BilingualDone
    /\ n_iter = 1
    /\ Len(calls) = 4
    /\ calls[3].handle # calls[1].handle
    /\ calls[3].samples = calls[1].samples
    /\ ctx # <<>>
    /\ ctx_translate # <<>>

(***************************************************************************)
(* Properties of print_bilingual_results.                                  *)
(***************************************************************************)
\* a is dispatched before b: an earlier chunk, or earlier in the same chunk
DispatchedBefore(a, b) ==
    a.chunk < b.chunk \/ (a.chunk = b.chunk /\ a.idx < b.idx)

\* record rec was made from the first-pass segment first
MadeFrom(rec, first) ==
    /\ rec.speaker_turn = first.turn
    /\ Elems(first.text) \subseteq Elems(rec.text)

C21_ExportGrows ==
    IsPrefix(export_session.segments, export_session.segments')

C21_InOrder ==
    /\ Len(export_session.segments) = Len(acc.export)
    /\ \A i \in 1..Len(acc.export) :
          MadeFrom(export_session.segments[i], acc.export[i].first)
    /\ \A i, j \in 1..Len(acc.export) :
          i < j => DispatchedBefore(acc.export[i], acc.export[j])
    /\ \A i \in 1..Len(results) :
          results[i].t0 = ctx[i].t0 /\ results[i].t1 = ctx[i].t1

\* C21: the export log in any state is a prefix of the export log in every
\* later state; its records are those of the dispatched segments, in the order
\* the chunks were processed and, within a chunk, in first-pass segment order
\* (the second pass never reorders them).
C21_AppendOnlyOrdered ==
    /\ []C21_InOrder
    /\ [][C21_ExportGrows]_vars

C21_Witness ==
    /\ pc = "print_chunk"
    /\ n_iter = 2
    /\ params.output_mode = "bilingual"
    /\ Len(ctx) = 2
    /\ Len(ctx_translate) = 2
    /\ Len(export_session.segments) = 4
    /\ export_session.segments[1] # export_session.segments[2]

\* C25: every record of the export log carries the engine timestamps of its
\* segment scaled to milliseconds, t0/10 and t1/10.
C25_ScaledTimestamps ==
    /\ Len(export_session.segments) = Len(acc.export)
    /\ \A i \in 1..Len(acc.export) :
          /\ export_session.segments[i].start_time_ms
                = acc.export[i].seg.t0 \div 10
          /\ export_session.segments[i].end_time_ms
                = acc.export[i].seg.t1 \div 10

\* the raw texts of a dispatched segment in the output mode
RawTexts(p, seg) ==
    CASE p.output_mode = "original" -> <<[text |-> seg.original_text]>>
      [] p.output_mode = "english" -> <<[text |-> seg.english_text]>>
      [] OTHER -> <<[text |-> seg.original_text], [text |-> seg.english_text]>>

RECURSIVE RawTextsOf(_, _)
RawTextsOf(p, log) ==
    IF log = <<>> THEN <<>>
    ELSE RawTexts(p, Head(log).seg) \o RawTextsOf(p, Tail(log))

\* C27: the meeting buffer is the raw texts of the dispatched segments in
\* order with a space between them (a space after the last text is allowed),
\* and nothing else, in every output mode, continuous or VAD.
C27_MeetingSpaceSeparated ==
    params.meeting_mode =>
        LET joined == JoinSpace(RawTextsOf(params, acc.meeting)) IN
        \/ meeting_session.transcription_buffer = joined
        \/ meeting_session.transcription_buffer = joined \o <<" ">>

(***************************************************************************)
(* Properties of the auto-copy session.                                    *)
(***************************************************************************)
\* the clock readings of a session
ClockSet == {k * HalfHourMs : k \in 0..(MaxHalfHours + 1)}

\* the step is a call of perform_auto_copy
PerformStep == fin_log' = Append(fin_log, "auto_copy")

SinkInvoked == out'.clipboard # out.clipboard

C22_NeverAgain ==
    auto_copy_session.has_been_copied =>
        /\ \A t \in ClockSet : ~should_auto_copy(auto_copy_session, params, t)
        /\ Len(SelectSeq(out.clipboard, LAMBDA c : c.ok)) = 1

C22_Frozen ==
    auto_copy_session.has_been_copied =>
        /\ auto_copy_session' = auto_copy_session
        /\ out'.clipboard = out.clipboard

\* C22: after a successful copy the copy-trigger check is false at every
\* later call, nothing more is appended to the auto-copy buffer and the
\* clipboard sink is not invoked again.
C22_CopyAtMostOnce ==
    /\ []C22_NeverAgain
    /\ [][C22_Frozen]_vars

C22_Witness ==
    /\ auto_copy_session.has_been_copied
    /\ Len(fin_log) = 2
    /\ out.reports = <<"Transcription copied">>
    /\ Len(auto_copy_session.transcription_buffer) < MaxSizeBytes

C23_OverCap ==
    \/ Len(auto_copy_session.transcription_buffer) > params.auto_copy_max_size_bytes
    \/ now > params.auto_copy_max_duration_hours * HourMs

C23_CapsStep ==
    (PerformStep /\ C23_OverCap) =>
        /\ ~SinkInvoked
        /\ auto_copy_session'.has_been_copied = auto_copy_session.has_been_copied

\* C23: a call of perform_auto_copy on a buffer larger than the byte cap, or
\* on a session that has lasted longer than the hour limit, does not invoke
\* the clipboard sink and does not mark the session as copied.
C23_CapsBlockCopy == [][C23_CapsStep]_vars

\* the reason the step reports, "" when it reports nothing
ReportedReason ==
    IF Len(out'.reports) = Len(out.reports) + 1
    THEN out'.reports[Len(out'.reports)] ELSE ""

C24_ReasonStep ==
    LET content == trim_whitespace(auto_copy_session.transcription_buffer)
        late == Hours(now') > params.auto_copy_max_duration_hours
        large == Len(content) > params.auto_copy_max_size_bytes
    IN (/\ PerformStep
        /\ params.auto_copy_enabled
        /\ ~auto_copy_session.has_been_copied
        /\ ~SinkInvoked) =>
          /\ ReportedReason # ""
          /\ (late /\ content # <<>>) =>
                ReportedReason = "session duration exceeded limit"
          /\ (large /\ ~late) => ReportedReason = "content size exceeded limit"
          /\ (content = <<>> /\ ~late) => ReportedReason = "no content to copy"

\* C24: a call of perform_auto_copy with auto-copy enabled and the session
\* not yet copied that does not copy reports why: no content for a buffer
\* empty after trimming, duration exceeded for a session over the hour limit
\* (also when the buffer is over the byte cap), size exceeded for a buffer
\* over the byte cap.
C24_SkipReported == [][C24_ReasonStep]_vars

(***************************************************************************)
(* Properties of the finalizers.                                           *)
(***************************************************************************)
AfterExport == pc \in {"fin_meeting", "fin_clear", "exit0"}
AfterMeeting == pc \in {"fin_clear", "exit0"}

\* the one hand-over of the whole log with its derived metadata
FullExport(e) ==
    /\ e.segments = export_session.segments
    /\ e.metadata.total_segments = Len(export_session.segments)
    /\ e.metadata.total_duration_ms =
          export_session.segments[Len(export_session.segments)].end_time_ms
          - export_session.segments[1].start_time_ms

ExportedOnce == Len(out.exports) = 1 /\ FullExport(out.exports[1])

\* C26 as stated: with export enabled the sink is handed the full log and
\* the derived metadata exactly once.
C26_ExportedOnceAlways ==
    (params.export_enabled /\ AfterExport) => ExportedOnce

\* C26: with export enabled, a log that is not empty and a supported format,
\* the export sink is handed the full log in order, with total duration
\* last.end - first.start, exactly once; with an empty log or an unsupported
\* format it is not invoked; it is never invoked before the export finalizer.
C26_ExportedOnce ==
    /\ (params.export_enabled /\ AfterExport) =>
          IF export_session.segments # <<>>
             /\ params.export_format \in SupportedFormats
          THEN ExportedOnce
          ELSE out.exports = <<>>
    /\ (~params.export_enabled \/ ~AfterExport) => out.exports = <<>>

C26_Witness ==
    /\ pc = "exit0"
    /\ ~params.no_timestamps
    /\ Len(export_session.segments) = 2
    /\ ExportedOnce
    /\ out.exports[1].metadata.total_duration_ms = 5
    /\ export_session.segments[2].start_time_ms = 5

\* the organized output was written
Organized == \E i \in 1..Len(out.written) : out.written[i].name = MeetingFile

\* the writes to a fallback file
FallbackWrites ==
    SelectSeq(out.written, LAMBDA w : w.name # MeetingFile)

\* the fallback file could not be opened
OpenFailed ==
    \E i \in 1..Len(out.reports) :
        out.reports[i] = "Failed to save transcription to file"

\* w writes the raw buffer with title and date to the first unused name
FirstUnusedWrite(w) ==
    /\ ~w.existed
    /\ w.name.base = "date"
    /\ \A k \in 0..(w.name.suffix - 1) : FallbackFile(k) \in out.files
    /\ Len(w.content) >= 2
    /\ w.content[1] = "# Meeting Transcription"
    /\ w.content[2] = "**Date**"
    /\ SubSeq(w.content, Len(w.content) - Len(meeting_session.transcription_buffer) + 1,
              Len(w.content)) = meeting_session.transcription_buffer

\* C28 as stated: whenever the organize sink did not succeed, the raw buffer
\* is written to the first unused fallback name.
C28_FallbackAlwaysWritten ==
    (params.meeting_mode /\ AfterMeeting /\ ~Organized) =>
        /\ Len(FallbackWrites) = 1
        /\ FirstUnusedWrite(FallbackWrites[1])

\* C28: in meeting mode, when the organize sink is unavailable or fails and
\* the fallback file can be opened, the raw buffer is written with title and
\* date to the first unused name of <date>.md, <date>-1.md, ...; when it
\* cannot be opened the failure is reported and nothing is written; the
\* search for the name ends and no file that existed is written.
C28_FallbackFirstUnused ==
    /\ (params.meeting_mode /\ AfterMeeting /\ ~Organized) =>
          IF OpenFailed
          THEN FallbackWrites = <<>>
          ELSE /\ Len(FallbackWrites) = 1
               /\ FirstUnusedWrite(FallbackWrites[1])
    /\ Organized => FallbackWrites = <<>>
    /\ \A i \in 1..Len(out.written) :
          out.written[i].name # MeetingFile => ~out.written[i].existed
    /\ pc = "fin_meeting" => ENABLED FinalMeeting

C28_Witness ==
    /\ pc = "exit0"
    /\ params.meeting_mode
    /\ ~Organized
    /\ meeting_session.transcription_buffer # <<>>
    /\ Len(FallbackWrites) = 1
    /\ FallbackWrites[1].name = FallbackFile(MaxFiles)

HasReport(what) == \E i \in 1..Len(out.reports) : out.reports[i] = what

OrganizeErrors ==
    {"Error: Empty transcription", "Error: Claude CLI not found",
     "Error: Claude CLI execution failed",
     "Error: Cannot create meeting output file"}

FinalPcs == {"loop", "fin_copy", "fin_export", "fin_meeting", "fin_clear"}

\* C30: a failure of the clipboard sink, of the export sink (an unsupported
\* format included) or of the organize sink is reported; every enabled
\* finalizer still runs, in order, and main returns 0.
C30_FailuresReported ==
    /\ \A i \in 1..Len(out.clipboard) :
          ~out.clipboard[i].ok => HasReport("unable to copy to clipboard")
    /\ \A i \in 1..Len(out.exports) :
          ~out.exports[i].ok => HasReport("Export failed")
    /\ (/\ params.export_enabled
        /\ AfterExport
        /\ export_session.segments # <<>>
        /\ params.export_format \notin SupportedFormats) =>
          HasReport("Export failed: unsupported format")
    /\ (params.meeting_mode /\ AfterMeeting /\ ~Organized) =>
          \E e \in OrganizeErrors : HasReport(e)
    /\ AfterMeeting => fin_log = ExpectedFinalizers
    /\ pc \in FinalPcs => ENABLED NextFinal
    /\ pc \in FinalPcs \union {"exit0"}

C30_Witness ==
    /\ pc = "exit0"
    /\ fin_log = <<"auto_copy", "export", "meeting">>
    /\ Len(out.clipboard) = 1
    /\ ~out.clipboard[1].ok
    /\ Len(out.exports) = 1
    /\ ~out.exports[1].ok
    /\ ~Organized
    /\ HasReport("Failed to save transcription to file")

(***************************************************************************)
(* The meeting transcript at the end of a run of main().                   *)
(***************************************************************************)
\* C29: in meeting mode a run in which a segment was appended to the meeting
\* buffer does not return from main, with whatever exit code, without the
\* meeting finalizer (the organized output or the fallback file) having been
\* run on the transcript.
C29_TranscriptNotLost ==
    (pc \in Terminal \ {"crashed"} /\ params.meeting_mode /\ acc.meeting # <<>>) =>
        "meeting" \in Elems(fin_log)

(***************************************************************************)
(* Properties of the set-up and the exit code of main().                   *)
(***************************************************************************)
\* main returned with code n
ExitCode(n) == pc = "exit" \o ToString(n)

ResolvedMode ==
    IF configured.translate /\ configured.output_mode = "original"
    THEN "english" ELSE configured.output_mode

AfterMode == pc \in {"translate_context", "loop", "exit6"} \/ ~is_running

\* C33 as stated: whenever --translate is set the loop runs in english mode
\* and the notice was printed.
C33_TranslateAlwaysEnglish ==
    (configured.translate /\ AfterMode) =>
        /\ params.output_mode = "english"
        /\ HasReport("--translate flag detected")

\* C33: with --translate and the output mode original (the default) the loop
\* runs in english mode and the notice is printed once; an output mode english
\* or bilingual given with --translate is kept, without notice; without
\* --translate the mode is the one given; the normalization is no error.
C33_TranslateNormalized ==
    /\ AfterMode =>
          /\ params.output_mode = ResolvedMode
          /\ HasReport("--translate flag detected")
                <=> (configured.translate /\ configured.output_mode = "original")
          /\ \A i \in 1..Len(calls) : calls[i].output_mode = ResolvedMode
    /\ Len(SelectSeq(out.reports,
                     LAMBDA r : r = "--translate flag detected")) <= 1
    /\ (pc \in Terminal /\ HasReport("--translate flag detected")) =>
          \/ AfterMode
          \/ /\ ExitCode(1)
             /\ ~configured.multilingual
             /\ HasReport("error: output mode requires a multilingual model")

C33_Witness ==
    /\ pc = "loop"
    /\ n_iter = 1
    /\ configured.translate
    /\ configured.output_mode = "original"
    /\ params.output_mode = "english"
    /\ HasReport("--translate flag detected")

(***************************************************************************)
(* Properties of the configuration layers.                                 *)
(***************************************************************************)
\* the layers that set key k, by priority: 4 the command line, 3 the
\* environment, 2 the project file, 1 the user file
SettingLayers(k) == {i \in 1..4 : configured[LayerNames[i]][k] # {}}

HighestSetting(k) == CHOOSE i \in SettingLayers(k) : \A j \in SettingLayers(k) : j <= i

\* C34: for every configuration key the value in effect for the run is the
\* one of the highest-priority layer that sets it, in the order command line
\* > environment > project file > user file.
C34_HighestLayerWins ==
    pc = "audio_init" =>
        \A k \in ConfigKeys :
            SettingLayers(k) # {} =>
                params[k] = LayerValue(HighestSetting(k), k)

(***************************************************************************)
(* Termination of the controller.                                          *)
(***************************************************************************)
\* the cancellation flag is set or the event source has reported termination
Cancelled == g_interrupt_received \/ ~is_running

\* the controller is in the processing loop
LoopPcs == {"loop_test", "poll_top", "inner_poll", "inner_get", "compose",
            "vad_tick", "infer", "dispatch", "advance"}

\* the modelled clock has no later instant for the sleep of a VAD tick
ClockExhausted == pc = "vad_tick" /\ SleepAdvance = {}

\* main() has returned after the finalizers that are enabled
Finalized == pc = "done" /\ fin_log = ExpectedFinalizers

\* C35: once the cancellation flag is set or the event source has reported
\* termination, the controller eventually completes finalization and exits
\* (every inference and sink call returns).
C35_StopsAndFinalizes ==
    (Cancelled /\ pc \in LoopPcs) ~> (Finalized \/ ClockExhausted)

(***************************************************************************)
(* The carry reset.                                                        *)
(***************************************************************************)
\* C36: in continuous mode, whenever the carry is reset the chunk just
\* processed holds at least n_samples_keep samples and n_samples_keep is not
\* negative, so that the tail slice lies within the chunk.
C36_TailWithinChunk ==
    (pc = "advance" /\ IsNewLine(n_iter + 1)) =>
        /\ n_samples_keep >= 0
        /\ Len(pcmf32) >= n_samples_keep

(***************************************************************************)
(* The auto-copy buffer.                                                   *)
(***************************************************************************)
CopyBuffer == auto_copy_session.transcription_buffer

\* the longest formatted text of one segment
MaxPieceLen == CHOOSE n \in 0..8 :
                  /\ \E text \in CopyPieces : Len(text) = n
                  /\ \A text \in CopyPieces : Len(text) <= n

\* a step that changes the buffer is taken with the copy check holding at
\* that time, so not after the size exceeded the cap, and adds one text
C37_AppendStep ==
    CopyBuffer' # CopyBuffer =>
        /\ should_auto_copy(auto_copy_session, params, now)
        /\ ~(Len(CopyBuffer) > params.auto_copy_max_size_bytes)
        /\ \E text \in CopyPieces : CopyBuffer' = CopyBuffer \o text

\* C37: text is appended to the auto-copy buffer only while the copy check
\* holds at the time of the append; the buffer never grows after its size
\* first exceeded the cap, and its size never exceeds the cap plus the length
\* of one segment's formatted text.
C37_GatedAppend ==
    /\ [](Len(CopyBuffer) <= params.auto_copy_max_size_bytes + MaxPieceLen)
    /\ [][C37_AppendStep]_vars

\* the buffer exceeded the cap by the whole text of the last segment
C37_Witness ==
    /\ Len(CopyBuffer) = params.auto_copy_max_size_bytes + MaxPieceLen
    /\ MaxPieceLen > 1

(***************************************************************************)
(* The bilingual merge.                                                    *)
(***************************************************************************)
\* the text of a pass-2 segment occurs in an english text
OccursIn(text, english) ==
    text # <<>> /\ \E k \in 1..Len(english) : english[k] = text[1]

\* C38: the bilingual merge is driven by the pass-1 segments: one
\* BilingualSegment per pass-1 segment, in their order (none without pass-1
\* segments, whatever pass 2 returned), and a pass-2 segment is merged into
\* every pass-1 segment it overlaps, not only the first.
C38_DrivenByPassOne ==
    (pc = "seg_ok" /\ params.output_mode = "bilingual") =>
        /\ Len(results) = Len(ctx)
        /\ \A i \in 1..Len(ctx) :
              /\ results[i].t0 = ctx[i].t0
              /\ results[i].t1 = ctx[i].t1
              /\ results[i].original_text = ctx[i].text
              /\ \A j \in 1..Len(ctx_translate) :
                    ctx_translate[j].text # <<>> =>
                       (OccursIn(ctx_translate[j].text, results[i].english_text)
                           <=> ClaimOverlap(ctx[i], ctx_translate[j]))

\* one pass-2 segment overlaps two pass-1 segments and is in both results
C38_Witness ==
    /\ pc = "seg_ok"
    /\ params.output_mode = "bilingual"
    /\ Len(results) = 2
    /\ \E j \in 1..Len(ctx_translate) :
          \A i \in 1..2 :
             /\ ClaimOverlap(ctx[i], ctx_translate[j])
             /\ OccursIn(ctx_translate[j].text, results[i].english_text)

(***************************************************************************)
(* The recording flag.                                                     *)
(***************************************************************************)
\* from the resumption of capture to the return of the last finalizer
RecordingPcs == {"init_model"} \cup LoopPcs \cup Stopping \cup {"clear_rec"}

\* C39: the recording flag is false before capture is resumed, true from
\* then on (model loading and mode validation included) until the last
\* finalizer has returned; an interrupt during model loading or finalization
\* is therefore handled with the prompt of active capture, never as idle.
C39_RecordingWindow ==
    /\ pc = "start" => ~g_is_recording
    /\ pc \in RecordingPcs => g_is_recording
    /\ pc \in {"cleanup", "done"} => ~g_is_recording
    /\ sig.idle_at \cap RecordingPcs = {}

\* an interrupt arrived during finalization and was answered at the prompt
C39_Witness ==
    /\ sig.count = 1
    /\ sig.in_stop
    /\ sig.key \in Keys
    /\ pc \in Stopping

(***************************************************************************)
(* The duration limit of the auto-copy.                                    *)
(***************************************************************************)
\* the first instant past the limit: limit + 1 whole hours
DurationEnd == (params.auto_copy_max_duration_hours + 1) * HourMs

\* for a session that is enabled, not yet copied and within the size cap the
\* check holds exactly at the instants before limit + 1 hours
C40_CheckByInstant ==
    (/\ params.auto_copy_enabled
     /\ ~auto_copy_session.has_been_copied
     /\ Len(CopyBuffer) <= params.auto_copy_max_size_bytes) =>
        \A t \in ClockSet :
           should_auto_copy(auto_copy_session, params, t) <=> t < DurationEnd

\* a copy is made before limit + 1 hours; the duration is the reported reason
\* of a skip exactly when the second reading of the clock is at limit + 1
\* hours or later
C40_PerformStep ==
    /\ (~auto_copy_session.has_been_copied /\ auto_copy_session'.has_been_copied)
          => now' < DurationEnd
    /\ (PerformStep /\ ReportedReason = "session duration exceeded limit")
          => (now < DurationEnd /\ now' >= DurationEnd)

====
